---- MODULE Spec2Model ----
(***************************************************************************)
(* A model of the igbinary decoder of go-igbinary (package igbinary).      *)
(*                                                                         *)
(* A byte is a number 0..255.  A Go string and a []byte are sequences of   *)
(* bytes.  An unsigned integer of width w is the sequence of its w/8       *)
(* base-256 digits, most significant first, so that 64-bit quantities are  *)
(* exact.  An int64 is a sign and eight magnitude digits.                  *)
(*                                                                         *)
(* A decoded value (Go `any`) is a record [t, v]: t names the dynamic type *)
(* and v is a sequence of numbers: nothing for nil, 0/1 for a bool, sign   *)
(* and magnitude digits for an int64, the eight bit-pattern bytes for a    *)
(* float64, the bytes for a string, and the heap address for a map.  Go    *)
(* maps are references: the heap holds their entries, and a map value is   *)
(* the address of its heap cell.                                           *)
(*                                                                         *)
(* The recursion of decodeValue / decodeArray / decodeObjectProperties is  *)
(* unfolded over an explicit stack of loop frames; one step is one call of *)
(* decodeValue or decodeArrayKey up to the next such call.                 *)
(***************************************************************************)
EXTENDS Integers, Sequences, FiniteSets, TLC

\* ---------------------------------------------------------------- types.go
FormatVersion == 2
TypeNil == 0
TypeArrayRef8 == 1
TypeArrayRef16 == 2
TypeArrayRef32 == 3
TypeBoolFalse == 4
TypeBoolTrue == 5
TypePosInt8 == 6
TypeNegInt8 == 7
TypePosInt16 == 8
TypeNegInt16 == 9
TypePosInt32 == 10
TypeNegInt32 == 11
TypeDouble == 12
TypeStringEmpty == 13
TypeStringID8 == 14
TypeStringID16 == 15
TypeStringID32 == 16
TypeString8 == 17
TypeString16 == 18
TypeString32 == 19
TypeArray8 == 20
TypeArray16 == 21
TypeArray32 == 22
TypeObject8 == 23
TypeObject16 == 24
TypeObject32 == 25
TypeObjectID8 == 26
TypeObjectID16 == 27
TypeObjectID32 == 28
TypeObjectSer8 == 29
TypeObjectSer16 == 30
TypeObjectSer32 == 31
TypePosInt64 == 32
TypeNegInt64 == 33
TypeObjectRef8 == 34
TypeObjectRef16 == 35
TypeObjectRef32 == 36
TypeSimpleRef == 37

\* "__class" and "__serialized_raw" as bytes
ClassKey == <<95, 95, 99, 108, 97, 115, 115>>
SerializedDataKey ==
  <<95, 95, 115, 101, 114, 105, 97, 108, 105, 122, 101, 100, 95, 114, 97, 119>>

\* ---------------------------------------------------------------- values
Nil == [t |-> "nil", v |-> <<>>]
Bool(b) == [t |-> "bool", v |-> <<IF b THEN 1 ELSE 0>>]
Int64(neg, mag) == [t |-> "int64", v |-> <<IF neg THEN 1 ELSE 0>> \o mag]
Float64frombits(bits) == [t |-> "float64", v |-> bits]
Str(s) == [t |-> "string", v |-> s]
MapRef(h) == [t |-> "map", v |-> <<h>>]

\* ---------------------------------------------------------------- integers
Zeros(n) == [i \in 1..n |-> 0]

\* zero-extension of an unsigned value to 64 bits
Pad8(d) == Zeros(8 - Len(d)) \o d

\* int(v) for the lengths, counts and indices the decoder reads
RECURSIVE ToInt(_)
ToInt(d) == IF d = <<>> THEN 0 ELSE ToInt(SubSeq(d, 1, Len(d) - 1)) * 256 + d[Len(d)]

RECURSIVE AddOne(_)
AddOne(d) ==
  IF d = <<>> THEN <<>>
  ELSE IF d[Len(d)] = 255 THEN AddOne(SubSeq(d, 1, Len(d) - 1)) \o <<0>>
       ELSE SubSeq(d, 1, Len(d) - 1) \o <<d[Len(d)] + 1>>

\* 2^64 - d on eight digits
TwosComplement(d) == AddOne([i \in 1..Len(d) |-> 255 - d[i]])

\* int64(v): the two's-complement reading of the zero-extended value
ToInt64(d) ==
  LET u == Pad8(d)
  IN  IF u[1] >= 128 THEN Int64(TRUE, TwosComplement(u)) ELSE Int64(FALSE, u)

MinInt64Mag == <<128, 0, 0, 0, 0, 0, 0, 0>>

\* unary minus on an int64, wrapping at -2^63
Negate(x) ==
  LET mag == Tail(x.v)
  IN  IF mag = Zeros(8) THEN x
      ELSE IF x.v[1] = 1 /\ mag = MinInt64Mag THEN x
      ELSE Int64(x.v[1] = 0, mag)

\* quotient and remainder of a digit sequence by ten
RECURSIVE DivMod10(_, _)
DivMod10(d, rem) ==
  IF d = <<>> THEN [q |-> <<>>, r |-> rem]
  ELSE LET cur == rem * 256 + d[1]
           rest == DivMod10(Tail(d), cur % 10)
       IN  [q |-> <<cur \div 10>> \o rest.q, r |-> rest.r]

IsZero(d) == \A i \in 1..Len(d) : d[i] = 0

\* fmt.Sprintf("%d", v) of an unsigned value: its decimal digits in ASCII
RECURSIVE SprintfD(_)
SprintfD(d) ==
  LET qr == DivMod10(d, 0)
  IN  IF IsZero(qr.q) THEN <<48 + qr.r>> ELSE SprintfD(qr.q) \o <<48 + qr.r>>

\* fmt.Sprintf("-%d", v)
SprintfMinusD(d) == <<45>> \o SprintfD(d)

\* ---------------------------------------------------------------- errors.go
NoErr == [kind |-> "nil", pos |-> 0, fmt |-> "", args |-> <<>>, wrap |-> 0]

newError(err, pos, fmtstr, args) ==
  [kind |-> err, pos |-> pos, fmt |-> fmtstr, args |-> args, wrap |-> 0]

\* fmt.Errorf("...: %v", err): the text only, no chain to the DecodeError
ErrorfOpaque(err) ==
  [kind |-> "errorString", pos |-> 0, fmt |-> "%v", args |-> <<>>, wrap |-> err.wrap + 1]

\* fmt.Errorf("...: %w", err): the chain keeps the DecodeError
Errorf(err) == [err EXCEPT !.wrap = @ + 1]

\* ---------------------------------------------------------------- reader
\* one result of a reader method: the reader afterwards, the value, the error
Res(r, v, err) == [r |-> r, v |-> v, err |-> err]

\* a reader that gives a zero byte at the end of the data
readByteZero(r) ==
  IF r.pos >= Len(r.data)
  THEN Res(r, 0, NoErr)
  ELSE Res([r EXCEPT !.pos = @ + 1], r.data[r.pos + 1], NoErr)

\* a reader that gives the last byte again at the end of the data
readByteClamped(r) ==
  IF r.pos >= Len(r.data)
  THEN Res(r, IF r.data = <<>> THEN 0 ELSE r.data[Len(r.data)], NoErr)
  ELSE Res([r EXCEPT !.pos = @ + 1], r.data[r.pos + 1], NoErr)

readByte(r) ==
  IF r.pos >= Len(r.data)
  THEN Res(r, 0, newError("ErrUnexpectedEnd", r.pos, "", <<>>))
  ELSE Res([r EXCEPT !.pos = @ + 1], r.data[r.pos + 1], NoErr)

\* a reader that moves to the end of the data when a read fails
readBytesToEnd(r, n) ==
  IF r.pos + n > Len(r.data)
  THEN Res([r EXCEPT !.pos = Len(r.data)], <<>>,
           newError("ErrUnexpectedEnd", r.pos, "need %d bytes, have %d",
                    <<n, Len(r.data) - r.pos>>))
  ELSE Res([r EXCEPT !.pos = @ + n], SubSeq(r.data, r.pos + 1, r.pos + n), NoErr)

readBytes(r, n) ==
  IF r.pos + n > Len(r.data)
  THEN Res(r, <<>>, newError("ErrUnexpectedEnd", r.pos, "need %d bytes, have %d",
                             <<n, Len(r.data) - r.pos>>))
  ELSE Res([r EXCEPT !.pos = @ + n], SubSeq(r.data, r.pos + 1, r.pos + n), NoErr)

readUint8(r) ==
  LET b == readByte(r) IN Res(b.r, <<b.v>>, b.err)

readUint16(r) ==
  LET b == readBytes(r, 2)
  IN  IF b.err # NoErr THEN Res(b.r, Zeros(2), b.err)
      ELSE Res(b.r, <<b.v[1], b.v[2]>>, NoErr)

readUint32(r) ==
  LET b == readBytes(r, 4)
  IN  IF b.err # NoErr THEN Res(b.r, Zeros(4), b.err)
      ELSE Res(b.r, <<b.v[1], b.v[2], b.v[3], b.v[4]>>, NoErr)

\* a decoder that reads 64-bit operands least significant byte first
readUint64LittleEndian(r) ==
  LET b == readBytes(r, 8)
  IN  IF b.err # NoErr THEN Res(b.r, Zeros(8), b.err)
      ELSE Res(b.r, <<b.v[8], b.v[7], b.v[6], b.v[5], b.v[4], b.v[3], b.v[2], b.v[1]>>, NoErr)

readUint64(r) ==
  LET b == readBytes(r, 8)
  IN  IF b.err # NoErr THEN Res(b.r, Zeros(8), b.err)
      ELSE Res(b.r, <<b.v[1], b.v[2], b.v[3], b.v[4], b.v[5], b.v[6], b.v[7], b.v[8]>>, NoErr)

\* the 8/16/32-bit operand selected by the width of a tag (w = 0, 1, 2)
readUintW(r, w) ==
  IF w = 0 THEN readUint8(r) ELSE IF w = 1 THEN readUint16(r) ELSE readUint32(r)

\* ---------------------------------------------------------------- strings
\* a decoder that puts the newest string first
readAndRegisterStringFirst(r, length) ==
  LET b == readBytes(r, length)
  IN  IF b.err # NoErr THEN Res(b.r, <<>>, b.err)
      ELSE Res([b.r EXCEPT !.strings = <<b.v>> \o @], b.v, NoErr)

readAndRegisterString(r, length) ==
  LET b == readBytes(r, length)
  IN  IF b.err # NoErr THEN Res(b.r, <<>>, b.err)
      ELSE Res([b.r EXCEPT !.strings = Append(@, b.v)], b.v, NoErr)

decodeNewString8(r) ==
  LET length == readUint8(r)
  IN  IF length.err # NoErr THEN Res(length.r, <<>>, length.err)
      ELSE readAndRegisterString(length.r, ToInt(length.v))

decodeNewString16(r) ==
  LET length == readUint16(r)
  IN  IF length.err # NoErr THEN Res(length.r, <<>>, length.err)
      ELSE readAndRegisterString(length.r, ToInt(length.v))

decodeNewString32(r) ==
  LET length == readUint32(r)
  IN  IF length.err # NoErr THEN Res(length.r, <<>>, length.err)
      ELSE readAndRegisterString(length.r, ToInt(length.v))

\* a decoder that reads a back-reference past the table as the empty string
lookupStringEmpty(r, id) ==
  IF id < 0 \/ id >= Len(r.strings) THEN Res(r, <<>>, NoErr) ELSE Res(r, r.strings[id + 1], NoErr)

lookupString(r, id) ==
  IF id < 0 \/ id >= Len(r.strings)
  THEN Res(r, <<>>, newError("ErrStringIDOutOfRange", r.pos, "ID %d, table size %d",
                             <<id, Len(r.strings)>>))
  ELSE Res(r, r.strings[id + 1], NoErr)

\* a decoder that turns a reference past the table into nil
lookupValueNil(r, id) ==
  IF id < 0 \/ id >= Len(r.values) THEN Res(r, Nil, NoErr) ELSE Res(r, r.values[id + 1], NoErr)

\* a decoder that does so unless it is strict
lookupValueLenient(r, id) ==
  IF id < 0 \/ id >= Len(r.values)
  THEN IF r.strict
       THEN Res(r, Nil, newError("ErrValueRefOutOfRange", r.pos, "ID %d, table size %d",
                                 <<id, Len(r.values)>>))
       ELSE Res(r, Nil, NoErr)
  ELSE Res(r, r.values[id + 1], NoErr)

lookupValue(r, id) ==
  IF id < 0 \/ id >= Len(r.values)
  THEN Res(r, Nil, newError("ErrValueRefOutOfRange", r.pos, "ID %d, table size %d",
                            <<id, Len(r.values)>>))
  ELSE Res(r, r.values[id + 1], NoErr)

\* ---------------------------------------------------------------- maps
\* make(map[string]any): a map with no entries
EmptyMap == [k \in {} |-> Nil]

\* a map that keeps the first value stored under a key
MapSetFirst(m, key, val) ==
  [k \in DOMAIN m \cup {key} |-> IF k \in DOMAIN m THEN m[k] ELSE val]

\* m[key] = val
MapSet(m, key, val) == [k \in DOMAIN m \cup {key} |-> IF k = key THEN val ELSE m[k]]

\* ---------------------------------------------------------------- call stack
(* A decode in progress, S: the reader r (with the heap of the maps made so  *)
(* far), the stack of the entry loops that are waiting for a key or a value, *)
(* pc (the call to make next), ret (what Decoder.Decode returned) and out    *)
(* (the call made last: its function, the offset and value of the tag it     *)
(* read, the value and error it produced (for a container the map it        *)
(* allocated) and encl, the maps of the loops that were open when it was     *)
(* made, outermost first).                                                   *)
Frame(fn, m, size, className) ==
  [fn |-> fn, m |-> m, size |-> size, i |-> 0, key |-> <<>>, className |-> className]

Top(S) == S.stack[Len(S.stack)]

Pop(S) == [S EXCEPT !.stack = SubSeq(@, 1, Len(@) - 1)]

Out(S, fn, at, code, val, err) ==
  [fn |-> fn, at |-> at, code |-> code, val |-> val, err |-> err,
   encl |-> [j \in 1..Len(S.stack) |-> S.stack[j].m]]

NoOut == [fn |-> "", at |-> 0, code |-> 0, val |-> Nil, err |-> NoErr, encl |-> <<>>]

RECURSIVE valueReturned(_, _, _)
RECURSIVE entryLoop(_)

\* a decoder that refuses bytes after the top-level value
valueReturnedExact(S, val, err) ==
  IF S.stack = <<>>
  THEN IF err = NoErr /\ S.r.pos < Len(S.r.data)
       THEN [S EXCEPT !.pc = "done",
                      !.ret = [val |-> Nil,
                               err |-> newError("ErrTrailingData", S.r.pos, "", <<>>)]]
       ELSE [S EXCEPT !.pc = "done", !.ret = [val |-> val, err |-> err]]
  ELSE LET f == Top(S)
       IN  IF err # NoErr
           THEN valueReturned(Pop(S), Nil, Errorf(err))
           ELSE entryLoop([S EXCEPT !.r.heap[f.m] = MapSet(@, f.key, val),
                                    !.stack[Len(S.stack)].i = @ + 1])

\* decodeValue has returned (val, err): to Decoder.Decode when no loop is
\* open, else to the loop body of decodeArray / decodeObjectProperties, which
\* gives up with a wrapped error or stores m[key] = val and goes on
valueReturned(S, val, err) ==
  IF S.stack = <<>>
  THEN [S EXCEPT !.pc = "done", !.ret = [val |-> val, err |-> err]]
  ELSE LET f == Top(S)
       IN  IF err # NoErr
           THEN valueReturned(Pop(S), Nil, Errorf(err))
           ELSE entryLoop([S EXCEPT !.r.heap[f.m] = MapSet(@, f.key, val),
                                    !.stack[Len(S.stack)].i = @ + 1])

\* for i := 0; i < size; i++ { ... }; return m, nil
entryLoop(S) ==
  LET f == Top(S)
  IN  IF f.i < f.size
      THEN [S EXCEPT !.pc = "decodeArrayKey"]
      ELSE valueReturned(Pop(S), MapRef(f.m), NoErr)

\* a decoder that forgets to register a container
registerNothing(r, m) == r

\* a decoder that puts the newest container first
registerValueFirst(r, m) == [r EXCEPT !.values = <<MapRef(m)>> \o @]

\* r.values = append(r.values, m)
registerValue(r, m) == [r EXCEPT !.values = Append(@, MapRef(m))]

\* ---------------------------------------------------------------- arrays
decodeArray(S, size) ==
  LET m == Len(S.r.heap) + 1
      r1 == registerValue([S.r EXCEPT !.heap = Append(@, EmptyMap)], m)
  IN  entryLoop([S EXCEPT !.r = r1,
                          !.out.val = MapRef(m),
                          !.stack = Append(@, Frame("decodeArray", m, size, <<>>))])

IsIntKey(code) ==
  code \in {TypePosInt8, TypeNegInt8, TypePosInt16, TypeNegInt16,
            TypePosInt32, TypeNegInt32, TypePosInt64, TypeNegInt64}

\* the operand of an integer tag
readMagnitude(r, code) ==
  IF code \in {TypePosInt8, TypeNegInt8} THEN readUint8(r)
  ELSE IF code \in {TypePosInt16, TypeNegInt16} THEN readUint16(r)
  ELSE IF code \in {TypePosInt32, TypeNegInt32} THEN readUint32(r)
  ELSE readUint64(r)

IsNegInt(code) == code \in {TypeNegInt8, TypeNegInt16, TypeNegInt32, TypeNegInt64}

\* the integer-key cases of decodeArrayKey
integerKey(r, code) ==
  LET v == readMagnitude(r, code)
  IN  Res(v.r, IF IsNegInt(code) THEN SprintfMinusD(v.v) ELSE SprintfD(v.v), v.err)

\* the string back-reference cases of decodeValue and decodeArrayKey
stringID(r, w) ==
  LET v == readUintW(r, w)
  IN  IF v.err # NoErr THEN Res(v.r, <<>>, v.err) ELSE lookupString(v.r, ToInt(v.v))

\* a decoder that interns the empty string like any other
stringEmptyInterned(r) == Res([r EXCEPT !.strings = Append(@, <<>>)], <<>>, NoErr)

\* the empty-string case of decodeValue and decodeArrayKey
stringEmpty(r) == Res(r, <<>>, NoErr)

\* a decoder that also takes booleans as keys, true as "1" and false as ""
decodeArrayKeyBool(r) ==
  LET b == readByte(r)
      code == b.v
  IN  IF b.err # NoErr THEN Res(b.r, <<>>, b.err)
      ELSE CASE code = TypeStringEmpty -> stringEmpty(b.r)
             [] code = TypeBoolFalse -> Res(b.r, <<>>, NoErr)
             [] code = TypeBoolTrue -> Res(b.r, <<49>>, NoErr)
             [] code = TypeString8 -> decodeNewString8(b.r)
             [] code = TypeString16 -> decodeNewString16(b.r)
             [] code = TypeString32 -> decodeNewString32(b.r)
             [] code = TypeStringID8 -> stringID(b.r, 0)
             [] code = TypeStringID16 -> stringID(b.r, 1)
             [] code = TypeStringID32 -> stringID(b.r, 2)
             [] IsIntKey(code) -> integerKey(b.r, code)
             [] OTHER -> Res(b.r, <<>>, newError("ErrUnsupportedArrayKey", b.r.pos - 1,
                                                 "0x%02x", <<code>>))

\* decodeArrayKey as a function of the reader: (key, err) and the reader after
decodeArrayKey(r) ==
  LET b == readByte(r)
      code == b.v
  IN  IF b.err # NoErr THEN Res(b.r, <<>>, b.err)
      ELSE CASE code = TypeStringEmpty -> stringEmpty(b.r)
             [] code = TypeString8 -> decodeNewString8(b.r)
             [] code = TypeString16 -> decodeNewString16(b.r)
             [] code = TypeString32 -> decodeNewString32(b.r)
             [] code = TypeStringID8 -> stringID(b.r, 0)
             [] code = TypeStringID16 -> stringID(b.r, 1)
             [] code = TypeStringID32 -> stringID(b.r, 2)
             [] IsIntKey(code) -> integerKey(b.r, code)
             [] OTHER -> Res(b.r, <<>>, newError("ErrUnsupportedArrayKey", b.r.pos - 1,
                                                 "0x%02x", <<code>>))

\* key, err := r.decodeArrayKey() in the loop body, and what the loop does
\* with it
keyStep(S) ==
  LET k == decodeArrayKey(S.r)
      S1 == [S EXCEPT !.r = k.r,
                      !.out = Out(S, "decodeArrayKey", S.r.pos,
                                  IF S.r.pos < Len(S.r.data) THEN S.r.data[S.r.pos + 1] ELSE -1,
                                  Str(k.v), k.err)]
  IN  IF k.err # NoErr
      THEN valueReturned(Pop(S1), Nil, Errorf(k.err))
      ELSE [S1 EXCEPT !.stack[Len(S.stack)].key = k.v, !.pc = "decodeValue"]

\* return nil, err from decodeValue or a function it returns the result of
failed(S, r, err) == valueReturned([S EXCEPT !.r = r, !.out.err = err], Nil, err)

\* ---------------------------------------------------------------- objects
\* a call f(a, b): Go evaluates the arguments once, before the call
Call(f(_, _), a, b) == CHOOSE y \in {f(x[1], x[2]) : x \in {<<a, b>>}} : TRUE

\* a decoder that leaves the class name out of the map
newObjectNoClass(className) == EmptyMap

\* m := make(map[string]any, propCount+1); m[ClassKey] = className
newObject(className) == MapSet(EmptyMap, ClassKey, Str(className))

\* a decoder that takes any byte after the class identity as the tag of an
\* 8-bit property count
decodeObjectPropertiesAnyTag(S, className) ==
  LET b == readByte(S.r)
      S1 == [S EXCEPT !.r = b.r]
  IN  IF b.err # NoErr THEN failed(S, b.r, b.err)
      ELSE LET c == readUintW(b.r, IF b.v \in {TypeArray16, TypeArray32}
                                   THEN b.v - TypeArray8 ELSE 0)
               propCount == ToInt(c.v)
               m == Len(c.r.heap) + 1
               r1 == registerValue([c.r EXCEPT !.heap = Append(@, newObject(className))], m)
           IN  IF c.err # NoErr THEN failed(S, c.r, c.err)
               ELSE entryLoop([S1 EXCEPT !.r = r1,
                                         !.out.val = MapRef(m),
                                         !.stack = Append(@, Frame("decodeObjectProperties", m,
                                                                   propCount, className))])

decodeObjectProperties(S, className) ==
  LET b == readByte(S.r)
      propCountCode == b.v
      S1 == [S EXCEPT !.r = b.r]
  IN  IF b.err # NoErr THEN failed(S, b.r, b.err)
      ELSE IF propCountCode \notin {TypeArray8, TypeArray16, TypeArray32}
      THEN failed(S, b.r,
             newError("ErrInvalidObjectProperties", b.r.pos - 1,
                      "expected array type code, got 0x%02x", <<propCountCode>>))
      ELSE LET c == readUintW(b.r, propCountCode - TypeArray8)
               propCount == ToInt(c.v)
               m == Len(c.r.heap) + 1
               r1 == registerValue([c.r EXCEPT !.heap = Append(@, newObject(className))], m)
           IN  IF c.err # NoErr THEN failed(S, c.r, c.err)
               ELSE entryLoop([S1 EXCEPT !.r = r1,
                                         !.out.val = MapRef(m),
                                         !.stack = Append(@, Frame("decodeObjectProperties", m,
                                                                   propCount, className))])

decodeObject(S, code) ==
  LET n == readUintW(S.r, code - TypeObject8)
      className == readAndRegisterString(n.r, ToInt(n.v))
  IN  IF n.err # NoErr THEN failed(S, n.r, n.err)
      ELSE IF className.err # NoErr THEN failed(S, className.r, className.err)
      ELSE Call(decodeObjectProperties, [S EXCEPT !.r = className.r], className.v)

decodeObjectByID(S, code) ==
  LET c == readUintW(S.r, code - TypeObjectID8)
      className == lookupString(c.r, ToInt(c.v))
  IN  IF c.err # NoErr THEN failed(S, c.r, c.err)
      ELSE IF className.err # NoErr THEN failed(S, className.r, Errorf(className.err))
      ELSE Call(decodeObjectProperties, [S EXCEPT !.r = className.r], className.v)

\* a decoder that takes any byte after the class name of a serialized object
\* as the tag of an 8-bit data length
decodeObjectSerializedAnyTag(r, code) ==
  LET n == readUintW(r, code - TypeObjectSer8)
      className == readAndRegisterString(n.r, ToInt(n.v))
      b == readByte(className.r)
      d == readUintW(b.r, IF b.v \in {TypeString16, TypeString32} THEN b.v - TypeString8 ELSE 0)
      raw == readBytes(d.r, ToInt(d.v))
      m == Len(raw.r.heap) + 1
      cell == MapSet(MapSet(EmptyMap, ClassKey, Str(className.v)),
                     SerializedDataKey, Str(raw.v))
  IN  IF n.err # NoErr THEN Res(n.r, Nil, n.err)
      ELSE IF className.err # NoErr THEN Res(className.r, Nil, className.err)
      ELSE IF b.err # NoErr THEN Res(b.r, Nil, b.err)
      ELSE IF d.err # NoErr THEN Res(d.r, Nil, d.err)
      ELSE IF raw.err # NoErr THEN Res(raw.r, Nil, raw.err)
      ELSE Res(registerValue([raw.r EXCEPT !.heap = Append(@, cell)], m), MapRef(m), NoErr)

\* decodeObjectSerialized as a function of the reader
decodeObjectSerialized(r, code) ==
  LET n == readUintW(r, code - TypeObjectSer8)
      className == readAndRegisterString(n.r, ToInt(n.v))
      b == readByte(className.r)
      dataLenCode == b.v
      d == readUintW(b.r, dataLenCode - TypeString8)
      raw == readBytes(d.r, ToInt(d.v))
      m == Len(raw.r.heap) + 1
      cell == MapSet(MapSet(EmptyMap, ClassKey, Str(className.v)),
                     SerializedDataKey, Str(raw.v))
  IN  IF n.err # NoErr THEN Res(n.r, Nil, n.err)
      ELSE IF className.err # NoErr THEN Res(className.r, Nil, className.err)
      ELSE IF b.err # NoErr THEN Res(b.r, Nil, b.err)
      ELSE IF dataLenCode \notin {TypeString8, TypeString16, TypeString32}
      THEN Res(b.r, Nil, newError("ErrInvalidSerializedData", b.r.pos - 1,
                                  "expected string type code, got 0x%02x", <<dataLenCode>>))
      ELSE IF d.err # NoErr THEN Res(d.r, Nil, d.err)
      ELSE IF raw.err # NoErr THEN Res(raw.r, Nil, raw.err)
      ELSE Res(registerValue([raw.r EXCEPT !.heap = Append(@, cell)], m), MapRef(m), NoErr)

\* ---------------------------------------------------------------- references
RefWidth(code) ==
  IF code \in {TypeArrayRef8, TypeObjectRef8} THEN 0
  ELSE IF code \in {TypeArrayRef16, TypeObjectRef16} THEN 1
  ELSE 2

decodeRef(r, code) ==
  LET v == readUintW(r, RefWidth(code))
  IN  IF v.err # NoErr THEN Res(v.r, Nil, v.err) ELSE lookupValue(v.r, ToInt(v.v))

\* a decoder for which the simple-reference byte is not a tag
simpleRefUndefined(r) ==
  Res(r, Nil, newError("ErrUnknownType", r.pos - 1, "0x%02x", <<TypeSimpleRef>>))

\* the simple-reference case of decodeValue
simpleRef(r) ==
  IF r.strict
  THEN Res(r, Nil, newError("ErrUnknownType", r.pos - 1,
                            "simple references are not fully supported in strict mode", <<>>))
  ELSE Res(r, Nil, NoErr)

\* ---------------------------------------------------------------- values
\* the integer cases of decodeValue: int64(v) or -int64(v), and err
integerValue(r, code) ==
  LET v == readMagnitude(r, code)
  IN  Res(v.r, IF IsNegInt(code) THEN Negate(ToInt64(v.v)) ELSE ToInt64(v.v), v.err)

doubleValue(r) ==
  LET v == readUint64(r)
  IN  IF v.err # NoErr THEN Res(v.r, Nil, v.err) ELSE Res(v.r, Float64frombits(v.v), NoErr)

\* a Go (string, error) result as the (any, error) decodeValue returns
AsAny(res) == Res(res.r, Str(res.v), res.err)

\* the string back-reference cases of decodeValue: nil when the index cannot
\* be read, else what lookupString returns
stringIDValue(r, w) ==
  LET v == readUintW(r, w)
  IN  IF v.err # NoErr THEN Res(v.r, Nil, v.err) ELSE AsAny(lookupString(v.r, ToInt(v.v)))

\* the cases of decodeValue that return without decoding a nested value
leafValue(r, code) ==
  CASE code = TypeNil -> Res(r, Nil, NoErr)
    [] code = TypeBoolFalse -> Res(r, Bool(FALSE), NoErr)
    [] code = TypeBoolTrue -> Res(r, Bool(TRUE), NoErr)
    [] IsIntKey(code) -> integerValue(r, code)
    [] code = TypeDouble -> doubleValue(r)
    [] code = TypeStringEmpty -> AsAny(stringEmpty(r))
    [] code = TypeString8 -> AsAny(decodeNewString8(r))
    [] code = TypeString16 -> AsAny(decodeNewString16(r))
    [] code = TypeString32 -> AsAny(decodeNewString32(r))
    [] code = TypeStringID8 -> stringIDValue(r, 0)
    [] code = TypeStringID16 -> stringIDValue(r, 1)
    [] code = TypeStringID32 -> stringIDValue(r, 2)
    [] code \in {TypeObjectSer8, TypeObjectSer16, TypeObjectSer32} ->
         decodeObjectSerialized(r, code)
    [] code \in {TypeArrayRef8, TypeArrayRef16, TypeArrayRef32,
                 TypeObjectRef8, TypeObjectRef16, TypeObjectRef32} -> decodeRef(r, code)
    [] code = TypeSimpleRef -> simpleRef(r)
    [] OTHER -> Res(r, Nil, newError("ErrUnknownType", r.pos - 1, "0x%02x", <<code>>))

\* one call of decodeValue, up to the next call of decodeArrayKey or
\* decodeValue that it or its callers make
decodeValue(S) ==
  LET b == readByte(S.r)
      code == b.v
      at == S.r.pos
      S1 == [S EXCEPT !.r = b.r, !.out = Out(S, "decodeValue", at, code, Nil, NoErr)]
  IN  IF b.err # NoErr
      THEN failed([S1 EXCEPT !.out.code = -1], b.r, b.err)
      ELSE CASE code \in {TypeArray8, TypeArray16, TypeArray32} ->
                  LET v == readUintW(b.r, code - TypeArray8)
                  IN  IF v.err # NoErr
                      THEN failed(S1, v.r, v.err)
                      ELSE decodeArray([S1 EXCEPT !.r = v.r], ToInt(v.v))
             [] code \in {TypeObject8, TypeObject16, TypeObject32} -> decodeObject(S1, code)
             [] code \in {TypeObjectID8, TypeObjectID16, TypeObjectID32} ->
                  decodeObjectByID(S1, code)
             [] OTHER ->
                  LET res == leafValue(b.r, code)
                  IN  valueReturned([S1 EXCEPT !.r = res.r, !.out.val = res.v,
                                               !.out.err = res.err],
                                    res.v, res.err)

\* ---------------------------------------------------------------- Decoder
NoReader ==
  [data |-> <<>>, pos |-> 0, strings |-> <<>>, values |-> <<>>, strict |-> FALSE, heap |-> <<>>]

NoRet == [val |-> Nil, err |-> NoErr]

\* a decoder that asks for the four bytes of the header only
DecodeFourBytes(d, bytes) ==
  LET S0 == [r |-> NoReader, stack |-> <<>>, pc |-> "done", ret |-> NoRet, out |-> NoOut]
  IN  IF Len(bytes) < 4
      THEN [S0 EXCEPT !.ret = [val |-> Nil,
                               err |-> newError("ErrDataTooShort", 0,
                                                "%d bytes (need at least 5)", <<Len(bytes)>>)]]
      ELSE IF bytes[1] # 0 \/ bytes[2] # 0 \/ bytes[3] # 0 \/ bytes[4] # FormatVersion
      THEN [S0 EXCEPT !.ret = [val |-> Nil,
                               err |-> newError("ErrInvalidHeader", 0,
                                                "got %02x %02x %02x %02x, want 00 00 00 %02x",
                                                <<bytes[1], bytes[2], bytes[3], bytes[4],
                                                  FormatVersion>>)]]
      ELSE [S0 EXCEPT !.r = [data |-> bytes, pos |-> 4, strings |-> <<>>, values |-> <<>>,
                             strict |-> d.strict, heap |-> <<>>],
                      !.pc = "decodeValue"]

\* Decoder.Decode up to its call of r.decodeValue()
Decode(d, bytes) ==
  LET S0 == [r |-> NoReader, stack |-> <<>>, pc |-> "done", ret |-> NoRet, out |-> NoOut]
  IN  IF Len(bytes) < 5
      THEN [S0 EXCEPT !.ret = [val |-> Nil,
                               err |-> newError("ErrDataTooShort", 0,
                                                "%d bytes (need at least 5)", <<Len(bytes)>>)]]
      ELSE IF bytes[1] # 0 \/ bytes[2] # 0 \/ bytes[3] # 0 \/ bytes[4] # FormatVersion
      THEN [S0 EXCEPT !.ret = [val |-> Nil,
                               err |-> newError("ErrInvalidHeader", 0,
                                                "got %02x %02x %02x %02x, want 00 00 00 %02x",
                                                <<bytes[1], bytes[2], bytes[3], bytes[4],
                                                  FormatVersion>>)]]
      ELSE [S0 EXCEPT !.r = [data |-> bytes, pos |-> 4, strings |-> <<>>, values |-> <<>>,
                             strict |-> d.strict, heap |-> <<>>],
                      !.pc = "decodeValue"]

\* the call that pc names
Step(S) == IF S.pc = "decodeValue" THEN decodeValue(S) ELSE keyStep(S)

\* Decoder.Decode from its call to its return
RECURSIVE Run(_)
Run(S) == IF S.pc = "done" THEN S ELSE Run(Step(S))

DecodeAll(d, bytes) == Run(Decode(d, bytes))

\* a decoder that keeps the tables of the call before
SessionShared(prev, d, bytes) ==
  LET S == Decode(d, bytes)
  IN  IF S.pc = "done" THEN S
      ELSE [S EXCEPT !.r.strings = prev.r.strings, !.r.values = prev.r.values,
                     !.r.heap = prev.r.heap]

\* the call of Decoder.Decode on a Decoder whose call before left prev
\* behind: r := &reader{data: data, pos: 4, strict: d.strict}, a reader of
\* its own that takes nothing from prev
Session(prev, d, bytes) == Decode(d, bytes)

\* ---------------------------------------------------------------- inputs
(* The payloads decoded: the header followed by every concatenation of at    *)
(* most MaxTokens byte strings of a family (a tag with its operands, or a    *)
(* container header), the tags of one kind in every width, and the           *)
(* end-to-end payloads of the documentation.                                 *)
MaxTokens == 5

Header == <<0, 0, 0, FormatVersion>>

\* the concatenations of at most n of the byte strings of T
RECURSIVE Bodies(_, _)
Bodies(T, n) ==
  IF n = 0 THEN {<<>>}
  ELSE LET shorter == Bodies(T, n - 1)
       IN  shorter \cup {t \o b : t \in T, b \in shorter}

WithHeader(bodies) == {Header \o b : b \in bodies}

\* maps, objects, serialized objects and the references to them
RefTokens ==
  { <<TypeArray8, 2>>, <<TypeStringEmpty>>, <<TypeArrayRef8, 0>>, <<TypeObjectRef16, 0, 1>>,
    <<TypeObject8, 0, TypeArray8, 1>>, <<TypeObjectSer8, 0, TypeString8, 0>>,
    <<TypeSimpleRef>> }

\* a reference of every tag and width, to index 0, 1 or 2, after 0 to 2
\* containers
RefTags ==
  {TypeArrayRef8, TypeArrayRef16, TypeArrayRef32, TypeObjectRef8, TypeObjectRef16, TypeObjectRef32}

RefForms ==
  { pre \o <<tag>> \o Zeros(IF tag \in {TypeArrayRef8, TypeObjectRef8} THEN 0
                            ELSE IF tag \in {TypeArrayRef16, TypeObjectRef16} THEN 1 ELSE 3)
        \o <<id>> \o post :
      pre \in { <<>>,
                <<TypeArray8, 1, TypeStringEmpty>>,
                <<TypeObject8, 0, TypeArray8, 1, TypeStringEmpty>>,
                <<TypeArray8, 2, TypePosInt8, 0, TypeArray8, 0, TypePosInt8, 1>>,
                <<TypeArray8, 2, TypePosInt8, 0, TypeObjectSer8, 0, TypeString8, 0, TypePosInt8, 1>>,
                <<TypeArray8, 2, TypePosInt8, 0, TypeObjectID8>> },
      tag \in RefTags, id \in 0..2, post \in {<<>>, <<TypeNil>>} }

\* strings, empty strings, inline class names and string back-references
StringTokens ==
  { <<TypeArray8, 2>>, <<TypeStringEmpty>>, <<TypeString8, 1, 97>>, <<TypeStringID8, 0>>,
    <<TypeStringID8, 1>>, <<TypeObject8, 1, 67, TypeArray8, 1>> }

\* a string back-reference or a class index of every width, to index 0, 1
\* or 2, in value position and in key position, after 0 or 1 strings and
\* before strings that come later
ClassIDTags == {TypeObjectID8, TypeObjectID16, TypeObjectID32}

StringIDForms ==
  { pre \o <<tag>> \o Zeros(IF tag \in {TypeStringID8, TypeObjectID8} THEN 0
                            ELSE IF tag \in {TypeStringID16, TypeObjectID16} THEN 1 ELSE 3)
        \o <<id>> \o post :
      pre \in { <<>>,
                <<TypeArray8, 1>>,
                <<TypeArray8, 2, TypeString8, 1, 97, TypeNil>>,
                <<TypeArray8, 2, TypeString8, 1, 97>> },
      tag \in {TypeStringID8, TypeStringID16, TypeStringID32} \cup ClassIDTags,
      id \in 0..2,
      post \in {<<>>, <<TypeArray8, 1, TypeString8, 1, 98, TypeString8, 1, 99>>} }

\* objects and their property keys
ObjectTokens ==
  { <<TypeObject8, 1, 67, TypeArray8, 1>>, <<TypeObject8, 1, 67, TypeArray8, 2>>,
    <<TypeObjectID8, 0, TypeArray8, 1>>, <<TypeObjectSer8, 1, 83, TypeString8, 1, 122>>,
    <<TypeString8, 7>> \o ClassKey, <<TypePosInt8, 1>>, <<TypeString8, 1, 49>> }

\* integers: every integer tag with magnitudes around the ends of its
\* range, in value position and in key position
EdgeBytes == {0, 1, 127, 128, 255}

Magnitudes(n) ==
  IF n = 1 THEN {<<b>> : b \in EdgeBytes}
  ELSE {<<hi>> \o [i \in 1..(n - 2) |-> mid] \o <<lo>> :
          hi \in EdgeBytes, mid \in {0, 255}, lo \in EdgeBytes}

IntTags ==
  {TypePosInt8, TypeNegInt8, TypePosInt16, TypeNegInt16,
   TypePosInt32, TypeNegInt32, TypePosInt64, TypeNegInt64}

IntWidth(tag) ==
  IF tag \in {TypePosInt8, TypeNegInt8} THEN 1
  ELSE IF tag \in {TypePosInt16, TypeNegInt16} THEN 2
  ELSE IF tag \in {TypePosInt32, TypeNegInt32} THEN 4
  ELSE 8

IntForms ==
  { pre \o <<tag>> \o mag \o post :
      tag \in IntTags, mag \in UNION {Magnitudes(n) : n \in {1, 2, 4, 8}},
      pre \in {<<>>, <<TypeArray8, 1>>}, post \in {<<>>, <<TypeNil>>} }

\* every byte in key position, in value position, after the class identity
\* of an object and after the class name of a serialized object, followed by
\* operands of every width
AnyByte == 0..255

Tails ==
  { <<>>, <<0>>, <<0, 0>>, Zeros(5), Zeros(9), <<1, 122>>, <<0, 2, 120, 121>>,
    <<0, 0, 0, 1, 122>> }

KeyPositions == { <<TypeArray8, 1>>, <<TypeArray8, 2, TypeString8, 1, 97, TypeNil>> }

ValuePositions == { <<>>, <<TypeArray8, 1, TypeStringEmpty>> }

PropertyPositions ==
  { <<TypeObject8, 1, 67>>, <<TypeObject16, 0, 1, 67>>, <<TypeObject32, 0, 0, 0, 0>>,
    <<TypeArray8, 1, TypeString8, 1, 67, TypeObjectID8, 0>>,
    <<TypeArray8, 1, TypeString8, 1, 67, TypeObjectID16, 0, 0>> }

BlobPositions ==
  { <<TypeObjectSer8, 1, 83>>, <<TypeObjectSer16, 0, 1, 83>>,
    <<TypeArray8, 1, TypeStringEmpty, TypeObjectSer32, 0, 0, 0, 0>> }

TagForms ==
  { pre \o <<b>> \o tail :
      pre \in KeyPositions \cup ValuePositions \cup PropertyPositions \cup BlobPositions,
      b \in AnyByte, tail \in Tails }

\* inputs of at most four bytes, and inputs of five bytes or more under
\* every header, over a few byte values
HeaderBytes == {0, 1, FormatVersion, 255}

RECURSIVE BytesOfLen(_)
BytesOfLen(n) ==
  IF n = 0 THEN {<<>>} ELSE {<<b>> \o rest : b \in HeaderBytes, rest \in BytesOfLen(n - 1)}

ShortInputs == UNION {BytesOfLen(n) : n \in 0..4}

HeaderTails ==
  { <<TypeNil>>, <<TypePosInt8, 42>>, <<TypeArray8, 1, TypeStringEmpty, TypeBoolTrue>>,
    <<TypeSimpleRef + 1>>, <<TypeString8, 3, 97>> }

HeaderInputs == ShortInputs \cup {h \o t : h \in BytesOfLen(4), t \in HeaderTails}

\* maps and objects of two or three entries whose keys are the empty string,
\* the fresh strings "1" and "k", a back-reference to the first string and
\* the integer 1
KeyTexts ==
  { <<TypeStringEmpty>>, <<TypeString8, 1, 49>>, <<TypeString8, 1, 107>>, <<TypeStringID8, 0>>,
    <<TypePosInt8, 1>> }

EntryValues == { <<TypeNil>>, <<TypePosInt8, 7>>, <<TypeString8, 1, 49>> }

RECURSIVE Entries(_)
Entries(n) ==
  IF n = 0 THEN {<<>>}
  ELSE {k \o v \o rest : k \in KeyTexts, v \in EntryValues, rest \in Entries(n - 1)}

DupKeyForms ==
  { open \o <<n>> \o e :
      open \in {<<TypeArray8>>, <<TypeObject8, 1, 49, TypeArray8>>},
      n \in {2, 3}, e \in Entries(3) }

\* the calls made on one Decoder: at most MaxCalls one after the other, while
\* another goroutine makes one
MaxCalls == 3

ReuseInputs ==
  { Header \o <<TypeStringID8, 0>>,
    Header \o <<TypeArray8, 2, TypeString8, 1, 97, TypeStringID8, 0, TypeStringEmpty,
                TypeArrayRef8, 0>>,
    Header \o <<TypeArray8, 1, TypeStringEmpty, TypeArrayRef8, 1>>,
    Header \o <<TypeObjectID8, 0, TypeArray8, 0>>,
    Header \o <<TypeObject8, 1, 67, TypeArray8, 1, TypeStringID8, 0, TypeSimpleRef>>,
    <<0, 0, 0, 1, TypeNil>> }

PeerInputs ==
  { Header \o <<TypeArray8, 1, TypeString8, 1, 112, TypeObjectSer8, 1, 83, TypeString8, 0>>,
    Header \o <<TypeArray8, 1, TypeStringID8, 0>>,
    <<0, 0, 0>> }

\* the end-to-end payloads of the documentation
Scenarios ==
  { <<TypePosInt8, 42>>,
    <<TypeArray8, 3, TypeString8, 3, 107, 101, 121, TypeString8, 5, 104, 101, 108, 108, 111,
      TypeString8, 5, 101, 109, 112, 116, 121, TypeStringEmpty,
      TypeString8, 3, 114, 101, 102, TypeStringID8, 1>>,
    <<TypeArray8, 2, TypeString8, 1, 108,
      TypeArray8, 2, TypePosInt8, 0, TypePosInt8, 42, TypePosInt8, 1, TypePosInt8, 83,
      TypeString8, 1, 112, TypeArrayRef8, 1>>,
    <<TypeObject8, 3, 70, 111, 111, TypeArray8, 1, TypeString8, 1, 120, TypePosInt8, 1>>,
    <<TypeArray8, 2, TypeString8, 1, 97, TypeObject8, 3, 67, 108, 115, TypeArray8, 0,
      TypeString8, 1, 98, TypeObjectID8, 1, TypeArray8, 1, TypeString8, 1, 121, TypePosInt8, 9>>,
    <<TypeArray8, 1, TypeString8, 4, 115, 101, 108, 102, TypeArrayRef8, 0>> }

\* maps and object property blocks that declare more entries than the
\* input can hold, alone or one inside the other, with zero to two of the
\* shortest entries
Openers ==
  { <<TypeArray8, 255>>, <<TypeArray32, 127, 255, 255, 255>>,
    <<TypeObject8, 0, TypeArray16, 255, 255>>, <<TypeObject8, 1, 67, TypeArray8, 255>> }

Fillers ==
  { <<>>, <<TypeStringEmpty, TypeNil>>, <<TypeStringEmpty, TypeNil, TypeStringEmpty>>,
    <<TypePosInt8, 1, TypeStringEmpty>> }

LoopForms ==
  { o1 \o f1 \o o2 \o f2 :
      o1 \in Openers, f1 \in {<<TypeStringEmpty>>},
      o2 \in {<<>>, <<TypeArray32, 127, 255, 255, 255>>,
              <<TypeObject8, 0, TypeArray16, 255, 255>>},
      f2 \in Fillers }

LoopPayloads == WithHeader(LoopForms)

Payloads == WithHeader(Bodies(RefTokens, MaxTokens) \cup RefForms \cup Scenarios)

StringPayloads == WithHeader(Bodies(StringTokens, MaxTokens) \cup StringIDForms \cup Scenarios)

ObjectPayloads == WithHeader(Bodies(ObjectTokens, MaxTokens) \cup Scenarios)

TagPayloads == WithHeader(TagForms \cup Scenarios)

IntPayloads == WithHeader(IntForms \cup Scenarios)

\* ---------------------------------------------------------------- memcached flags
FlagString == 0
FlagLong == 1
FlagDouble == 2
FlagBool == 3
FlagSerialized == 4
FlagIgbinary == 5
FlagJSON == 6
FlagMsgpack == 7

FlagCompressed == 16
FlagZlib == 32
FlagFastlz == 64
FlagZstd == 128

SerializerMask == 15
CompressionMask == 224

\* a & b on uint32
RECURSIVE BitAnd(_, _)
BitAnd(a, b) ==
  IF a = 0 \/ b = 0 THEN 0
  ELSE (a % 2) * (b % 2) + 2 * BitAnd(a \div 2, b \div 2)

\* a reading of the flags that takes the whole low byte as the type
SerializerTypeByte(flags) == BitAnd(flags, 255)

SerializerType(flags) == BitAnd(flags, SerializerMask)

\* a reading of the flags that takes any compression bit as "compressed"
IsCompressedAnyBit(flags) == BitAnd(flags, CompressionMask) # 0

IsCompressed(flags) == BitAnd(flags, FlagCompressed) # 0

\* ---------------------------------------------------------------- compressors, serializers
\* a nil Compressor or Serializer
NoPlugin == "nil"

\* fmt.Errorf without %w
\* x bound once to the value of an expression
Bind(x, F(_)) == CHOOSE y \in {F(v) : v \in {x}} : TRUE

errorf(fmtstr, args) == newError("errorString", 0, fmtstr, args)

\* (value, error) of Decompress and Deserialize
Result(v, err) == [v |-> v, err |-> err]

(* The streams of the compression libraries, reduced to their first byte: a *)
(* zlib stream is 0x78 followed by the payload, a FastLZ block is a literal  *)
(* run, the byte n-1 followed by n payload bytes. go-fastlz expects a 4-byte *)
(* length before the block.                                                  *)
ZlibMagic == 120

fastlzDecode(data) ==
  LET block == SubSeq(data, 5, Len(data))
  IN  IF block # <<>> /\ block[1] = Len(block) - 2
      THEN Result(Tail(block), NoErr)
      ELSE Result(<<>>, errorf("fastlz: corrupt input", <<>>))

zlibNewReader(stream) ==
  IF stream # <<>> /\ stream[1] = ZlibMagic
  THEN Result(Tail(stream), NoErr)
  ELSE Result(<<>>, errorf("zlib: invalid header", <<>>))

FastlzCompressorDecompress(data) ==
  IF Len(data) < 4
  THEN Result(<<>>, errorf("memcached: fastlz data too short: %d bytes", <<Len(data)>>))
  ELSE LET result == fastlzDecode(data)
       IN  IF result.err # NoErr THEN Result(<<>>, Errorf(result.err)) ELSE result

\* NewZlibCompressor(true): the stream after a 4-byte length, else the data
\* as a stream without the length
ZlibCompressorDecompress(data) ==
  IF Len(data) < 4
  THEN Result(<<>>, errorf("memcached: zlib data too short: %d bytes", <<Len(data)>>))
  ELSE LET prefixed == zlibNewReader(SubSeq(data, 5, Len(data)))
           whole == zlibNewReader(data)
       IN  IF prefixed.err = NoErr THEN prefixed
           ELSE IF whole.err = NoErr THEN whole
           ELSE Result(<<>>, Errorf(whole.err))

Compressors == {"fastlz", "zlib"}

Decompress(compressor, data) ==
  IF compressor = "fastlz" THEN FastlzCompressorDecompress(data)
  ELSE ZlibCompressorDecompress(data)

\* igbinary.Decode(data): the default decoder, not strict
IgbinarySerializerDeserialize(data) ==
  Bind(DecodeAll([strict |-> FALSE], data), LAMBDA S : Result(S.ret.val, S.ret.err))

StringSerializerDeserialize(data) == Result(Str(data), NoErr)

\* str == "1"
BoolSerializerDeserialize(data) == Result(Bool(data = <<49>>), NoErr)

\* json.Unmarshal, for the one-digit numbers, a float64 kept as its text;
\* other texts are invalid here
JSONSerializerDeserialize(data) ==
  IF Len(data) = 1 /\ data[1] \in 48..57
  THEN Result([t |-> "float64", v |-> data], NoErr)
  ELSE Result(Nil, Errorf(errorf("invalid character", <<>>)))

Serializers == {"igbinary", "string", "bool", "json"}

Deserialize(serializer, data) ==
  CASE serializer = "igbinary" -> IgbinarySerializerDeserialize(data)
    [] serializer = "string" -> StringSerializerDeserialize(data)
    [] serializer = "bool" -> BoolSerializerDeserialize(data)
    [] OTHER -> JSONSerializerDeserialize(data)

\* ---------------------------------------------------------------- codec
\* a Codec or CodecBuilder: its two maps, by reference, and its two fallbacks
CodecStruct(compressors, serializers, fallbackCompressor, fallbackSerializer) ==
  [compressors |-> compressors, serializers |-> serializers,
   fallbackCompressor |-> fallbackCompressor, fallbackSerializer |-> fallbackSerializer]

\* the Codec with the contents of its maps in the heap of maps ms
Deref(c, ms) ==
  CodecStruct(ms[c.compressors], ms[c.serializers], c.fallbackCompressor, c.fallbackSerializer)

\* resolveCompressor: the compressors the range over the map can return;
\* the order in which Go visits the entries of a map is not specified
resolveCompressor(c, flags) ==
  LET matching == {flag \in DOMAIN c.compressors : BitAnd(flags, flag) # 0}
  IN  IF matching = {} THEN {c.fallbackCompressor}
      ELSE {c.compressors[flag] : flag \in matching}

resolveSerializer(c, flags) ==
  LET serType == SerializerType(flags)
  IN  IF serType \in DOMAIN c.serializers THEN c.serializers[serType]
      ELSE c.fallbackSerializer

\* one call of Decompress or Deserialize made by Codec.Decode
Invocation(op, who, arg) == [op |-> op, who |-> who, arg |-> arg]

\* what Codec.Decode returns, with the calls it made, in order
Outcome(val, err, trace) == [val |-> val, err |-> err, trace |-> trace]

\* step 2 of Codec.Decode
deserializeStep(c, raw, flags, trace) ==
  LET serializer == resolveSerializer(c, flags)
  IN  IF serializer = NoPlugin
      THEN Outcome(Nil,
                   errorf("memcached: no serializer registered for type %d (flags 0x%08x)",
                          <<SerializerType(flags), flags>>),
                   trace)
      ELSE Bind(Deserialize(serializer, raw),
                LAMBDA res : Outcome(res.v, res.err,
                                     Append(trace, Invocation("Deserialize", serializer, raw))))

\* Codec.Decode when resolveCompressor returns compressor
codecDecode(c, compressor, data, flags) ==
  IF Len(data) = 0 THEN Outcome(Nil, NoErr, <<>>)
  ELSE Bind(IF ~IsCompressed(flags) THEN [v |-> data, err |-> NoErr, trace |-> <<>>]
            ELSE IF compressor = NoPlugin
            THEN [v |-> <<>>, trace |-> <<>>,
                  err |-> errorf("memcached: no compressor registered for flags 0x%08x", <<flags>>)]
            ELSE Bind(Decompress(compressor, data),
                      LAMBDA raw : [v |-> raw.v,
                                    err |-> IF raw.err # NoErr THEN Errorf(raw.err) ELSE NoErr,
                                    trace |-> <<Invocation("Decompress", compressor, data)>>]),
            LAMBDA step1 : IF step1.err # NoErr THEN Outcome(Nil, step1.err, step1.trace)
                           ELSE deserializeStep(c, step1.v, flags, step1.trace))

\* everything Codec.Decode can return for this Codec, data and flags
Outcomes(c, data, flags) ==
  {codecDecode(c, compressor, data, flags) : compressor \in resolveCompressor(c, flags)}

\* the requests made of a Codec: empty data, plain text, an igbinary
\* payload, text packed by each compressor, and a packing both accept
CodecData ==
  { <<>>, <<49>>, Header \o <<TypeBoolTrue>>, <<1, 0, 0, 0, ZlibMagic, 49>>,
    <<1, 0, 0, 0, 0, 49>>, <<ZlibMagic, 0, 0, 0, 0, 49>> }

CodecFlags ==
  { FlagString, FlagBool, FlagIgbinary, FlagCompressed,
    FlagCompressed + FlagZlib, FlagCompressed + FlagZlib + FlagFastlz,
    FlagZlib + FlagFastlz, 256 + FlagBool }

\* ---------------------------------------------------------------- machine
VARIABLES
  input,   \* the data passed to Decoder.Decode
  dec,     \* the Decoder: its strict flag
  r,       \* the reader of the call, with the heap of the maps it made
  stack,   \* the open entry loops, outermost first
  pc,      \* "Decode" before the call, then the next call, then "done"
  ret,     \* what Decoder.Decode returned
  out,     \* the last call of decodeValue / decodeArrayKey
  calls,   \* history: the calls made so far, in order
  earlier, \* history: the error kinds of the calls goroutine 1 made on dec before
  peer,    \* the call of Decode on dec by the goroutine that is not running
  turn,    \* the goroutine that is running, 1 or 2
  flags,   \* the flags passed to Codec.Decode, with input as its data
  maps,    \* the heap of the maps made by NewCodecBuilder: flag -> plugin
  builder, \* the CodecBuilder the caller holds, or NoCodec
  codec,   \* the Codec the caller holds, or NoCodec
  built,   \* history: how codec was made, and its maps' contents then
  decodes, \* history: the calls of Decode on codec and what they returned
  withs    \* history: the number of With... calls made on builder

codecVars == <<flags, maps, builder, codec, built, decodes, withs>>

decoderVars == <<dec, r, stack, pc, ret, out, calls, earlier, peer, turn>>

vars == <<input, dec, r, stack, pc, ret, out, calls, earlier, peer, turn,
          flags, maps, builder, codec, built, decodes, withs>>

\* no CodecBuilder, no Codec
NoCodec == CodecStruct(0, 0, NoPlugin, NoPlugin)

NotBuilt == [by |-> "", c |-> CodecStruct(EmptyMap, EmptyMap, NoPlugin, NoPlugin)]

\* a program that does not use the memcached package
NoCodecUse ==
  /\ flags = 0
  /\ maps = <<>>
  /\ builder = NoCodec
  /\ codec = NoCodec
  /\ built = NotBuilt
  /\ decodes = <<>>
  /\ withs = 0

\* no other goroutine
NoPeer ==
  [input |-> <<>>, r |-> NoReader, stack |-> <<>>, pc |-> "none", ret |-> NoRet, out |-> NoOut,
   calls |-> <<>>]

Cur == [r |-> r, stack |-> stack, pc |-> pc, ret |-> ret, out |-> out]

Commit(S) ==
  /\ r' = S.r
  /\ stack' = S.stack
  /\ pc' = S.pc
  /\ ret' = S.ret
  /\ out' = S.out
  /\ UNCHANGED <<input, dec, earlier, peer, turn>>
  /\ UNCHANGED codecVars

Start(inputs) ==
  /\ input \in inputs
  /\ dec \in [strict : BOOLEAN]
  /\ r = NoReader
  /\ stack = <<>>
  /\ pc = "Decode"
  /\ ret = NoRet
  /\ out = NoOut
  /\ calls = <<>>
  /\ earlier = <<>>
  /\ peer = NoPeer
  /\ turn = 1
  /\ NoCodecUse

Init == Start(Payloads)

DecoderDecode ==
  /\ pc = "Decode"
  /\ Commit(Session(Cur, dec, input))
  /\ UNCHANGED calls

DecodeValue ==
  /\ pc = "decodeValue"
  /\ Commit(decodeValue(Cur))
  /\ calls' = Append(calls, out')

DecodeArrayKey ==
  /\ pc = "decodeArrayKey"
  /\ Commit(keyStep(Cur))
  /\ calls' = Append(calls, out')

Next == DecoderDecode \/ DecodeValue \/ DecodeArrayKey

Spec == Init /\ [][Next]_vars

InitStrings == Start(StringPayloads)

SpecStrings == InitStrings /\ [][Next]_vars

InitObjects == Start(ObjectPayloads)

SpecObjects == InitObjects /\ [][Next]_vars

InitInts == Start(IntPayloads)

SpecInts == InitInts /\ [][Next]_vars

InitTags == Start(TagPayloads)

SpecTags == InitTags /\ [][Next]_vars

InitHeaders == Start(HeaderInputs \cup WithHeader(Scenarios))

SpecHeaders == InitHeaders /\ [][Next]_vars

InitKeys == Start(WithHeader(DupKeyForms \cup Scenarios))

SpecKeys == InitKeys /\ [][Next]_vars

InitLoops == Start(LoopPayloads)

\* the goroutine that called Decode keeps running until the call returns
SpecLoops == InitLoops /\ [][Next]_vars /\ WF_vars(Next)

\* one Decoder, used again by goroutine 1 after a call has returned, and used
\* by goroutine 2 at the same time
InitReuse ==
  /\ input \in ReuseInputs
  /\ dec \in [strict : BOOLEAN]
  /\ r = NoReader
  /\ stack = <<>>
  /\ pc = "Decode"
  /\ ret = NoRet
  /\ out = NoOut
  /\ calls = <<>>
  /\ earlier = <<>>
  /\ peer \in {[NoPeer EXCEPT !.input = data, !.pc = "Decode"] : data \in PeerInputs}
  /\ turn = 1
  /\ NoCodecUse

\* goroutine 1 has the result of a call and calls Decode on the same Decoder
\* with other data; the reader of the call that returned is left behind
DecodeAgain ==
  /\ turn = 1
  /\ pc = "done"
  /\ Len(earlier) + 1 < MaxCalls
  /\ input' \in ReuseInputs
  /\ earlier' = Append(earlier, ret.err.kind)
  /\ pc' = "Decode"
  /\ stack' = <<>>
  /\ ret' = NoRet
  /\ out' = NoOut
  /\ calls' = <<>>
  /\ UNCHANGED <<dec, r, peer, turn>>
  /\ UNCHANGED codecVars

\* the scheduler stops the running goroutine, between two calls of
\* decodeValue / decodeArrayKey, and resumes the other one
Yield ==
  /\ peer.pc # "none"
  /\ peer' = [input |-> input, r |-> r, stack |-> stack, pc |-> pc, ret |-> ret, out |-> out,
               calls |-> calls]
  /\ input' = peer.input
  /\ r' = peer.r
  /\ stack' = peer.stack
  /\ pc' = peer.pc
  /\ ret' = peer.ret
  /\ out' = peer.out
  /\ calls' = peer.calls
  /\ turn' = 3 - turn
  /\ UNCHANGED <<dec, earlier>>
  /\ UNCHANGED codecVars

NextReuse == DecoderDecode \/ DecodeValue \/ DecodeArrayKey \/ DecodeAgain \/ Yield

SpecReuse == InitReuse /\ [][NextReuse]_vars

\* ---------------------------------------------------------------- codec machine
MaxWith == 2

MaxDecodes == 2

\* a program that makes a Codec and decodes one cache value with it,
\* possibly more than once
InitCodec ==
  /\ input \in CodecData
  /\ flags \in CodecFlags
  /\ dec = [strict |-> FALSE]
  /\ r = NoReader
  /\ stack = <<>>
  /\ pc = "none"
  /\ ret = NoRet
  /\ out = NoOut
  /\ calls = <<>>
  /\ earlier = <<>>
  /\ peer = NoPeer
  /\ turn = 1
  /\ maps = <<>>
  /\ builder = NoCodec
  /\ codec = NoCodec
  /\ built = NotBuilt
  /\ decodes = <<>>
  /\ withs = 0

\* NewCodec(): a builder of its own, seven With... calls and Build
NewCodec ==
  /\ codec = NoCodec
  /\ builder = NoCodec
  /\ LET compressors == MapSet(MapSet(EmptyMap, FlagFastlz, "fastlz"), FlagZlib, "zlib")
         serializers == MapSet(MapSet(MapSet(EmptyMap, FlagIgbinary, "igbinary"),
                                      FlagString, "string"),
                               FlagJSON, "json")
         c == CodecStruct(Len(maps) + 1, Len(maps) + 2, "fastlz", "igbinary")
     IN  /\ maps' = maps \o <<compressors, serializers>>
         /\ codec' = c
         /\ built' = [by |-> "NewCodec", c |-> Deref(c, maps')]
  /\ UNCHANGED <<input, flags, builder, decodes, withs>>
  /\ UNCHANGED decoderVars

NewCodecBuilder ==
  /\ codec = NoCodec
  /\ builder = NoCodec
  /\ maps' = maps \o <<EmptyMap, EmptyMap>>
  /\ builder' = CodecStruct(Len(maps) + 1, Len(maps) + 2, NoPlugin, NoPlugin)
  /\ UNCHANGED <<input, flags, codec, built, decodes, withs>>
  /\ UNCHANGED decoderVars

\* b.compressors[flag] = c
WithCompressor ==
  /\ builder # NoCodec
  /\ withs < MaxWith
  /\ \E flag \in {FlagZlib, FlagFastlz}, c \in Compressors :
       maps' = [maps EXCEPT ![builder.compressors] = MapSet(@, flag, c)]
  /\ withs' = withs + 1
  /\ UNCHANGED <<input, flags, builder, codec, built, decodes>>
  /\ UNCHANGED decoderVars

\* b.serializers[flag] = s
WithSerializer ==
  /\ builder # NoCodec
  /\ withs < MaxWith
  /\ \E flag \in {FlagString, FlagBool}, s \in {"string", "bool"} :
       maps' = [maps EXCEPT ![builder.serializers] = MapSet(@, flag, s)]
  /\ withs' = withs + 1
  /\ UNCHANGED <<input, flags, builder, codec, built, decodes>>
  /\ UNCHANGED decoderVars

WithFallbackCompressor ==
  /\ builder # NoCodec
  /\ withs < MaxWith
  /\ \E c \in Compressors : builder' = [builder EXCEPT !.fallbackCompressor = c]
  /\ withs' = withs + 1
  /\ UNCHANGED <<input, flags, maps, codec, built, decodes>>
  /\ UNCHANGED decoderVars

WithFallbackSerializer ==
  /\ builder # NoCodec
  /\ withs < MaxWith
  /\ \E s \in {"string", "igbinary"} : builder' = [builder EXCEPT !.fallbackSerializer = s]
  /\ withs' = withs + 1
  /\ UNCHANGED <<input, flags, maps, codec, built, decodes>>
  /\ UNCHANGED decoderVars

\* the Codec gets the builder's maps themselves and copies of its fallbacks
Build ==
  /\ builder # NoCodec
  /\ codec = NoCodec
  /\ codec' = builder
  /\ built' = [by |-> "Build", c |-> Deref(builder, maps)]
  /\ UNCHANGED <<input, flags, maps, builder, decodes, withs>>
  /\ UNCHANGED decoderVars

\* codec.Decode(input, flags)
CodecDecode ==
  /\ codec # NoCodec
  /\ Len(decodes) < MaxDecodes
  /\ \E o \in Outcomes(Deref(codec, maps), input, flags) :
       decodes' = Append(decodes, [c |-> Deref(codec, maps), o |-> o])
  /\ UNCHANGED <<input, flags, maps, builder, codec, built, withs>>
  /\ UNCHANGED decoderVars

NextCodec ==
  \/ NewCodec
  \/ NewCodecBuilder
  \/ WithCompressor
  \/ WithSerializer
  \/ WithFallbackCompressor
  \/ WithFallbackSerializer
  \/ Build
  \/ CodecDecode

SpecCodec == InitCodec /\ [][NextCodec]_vars

\* ---------------------------------------------------------------- history
(* What the payload says, read off the input and the history of calls       *)
(* without the reader's tables.                                              *)
StringIDTags == {TypeStringID8, TypeStringID16, TypeStringID32}

FreshStringTags == {TypeString8, TypeString16, TypeString32}

InlineNameTags ==
  {TypeObject8, TypeObject16, TypeObject32, TypeObjectSer8, TypeObjectSer16, TypeObjectSer32}

ContainerTags == TypeArray8..TypeObjectSer32

\* the number of operand bytes that follow the tag of call c
OperandBytes(c) ==
  IF c.code \in {TypeStringID8, TypeString8, TypeArray8, TypeObject8, TypeObjectID8,
                 TypeObjectSer8, TypeArrayRef8, TypeObjectRef8} THEN 1
  ELSE IF c.code \in {TypeStringID16, TypeString16, TypeArray16, TypeObject16, TypeObjectID16,
                      TypeObjectSer16, TypeArrayRef16, TypeObjectRef16} THEN 2
  ELSE 4

HasOperand(c) == c.at + 1 + OperandBytes(c) <= Len(input)

\* the operand of call c: the big-endian number after its tag
Operand(c) == ToInt(SubSeq(input, c.at + 2, c.at + 1 + OperandBytes(c)))

\* the bytes that follow the operand of call c, as many as the operand says
Body(c) == SubSeq(input, c.at + 2 + OperandBytes(c), c.at + 1 + OperandBytes(c) + Operand(c))

HasBody(c) == HasOperand(c) /\ c.at + 1 + OperandBytes(c) + Operand(c) <= Len(input)

\* the strings of the fresh-string tags and inline class names among the
\* first n calls, in the order of the payload
RECURSIVE Registered(_)
Registered(n) ==
  IF n = 0 THEN <<>>
  ELSE LET c == calls[n]
       IN  IF \/ c.code \in FreshStringTags /\ HasBody(c)
              \/ c.fn = "decodeValue" /\ c.code \in InlineNameTags /\ HasBody(c)
           THEN Append(Registered(n - 1), Body(c))
           ELSE Registered(n - 1)

\* the maps of the container tags among the first n calls, in the order of
\* the payload
RECURSIVE Opened(_)
Opened(n) ==
  IF n = 0 THEN <<>>
  ELSE LET c == calls[n]
       IN  IF c.fn = "decodeValue" /\ c.code \in ContainerTags /\ c.val.t = "map"
           THEN Append(Opened(n - 1), c.val)
           ELSE Opened(n - 1)

\* the keys decoded for the entries of map m
KeysOf(m) ==
  { calls[k].val.v : k \in { n \in 1..Len(calls) :
                               /\ calls[n].fn = "decodeArrayKey"
                               /\ calls[n].err = NoErr
                               /\ calls[n].encl[Len(calls[n].encl)] = m } }

\* the number of keys decoded for the entries of map m
KeyCount(m) ==
  Cardinality({ n \in 1..Len(calls) :
                  /\ calls[n].fn = "decodeArrayKey"
                  /\ calls[n].err = NoErr
                  /\ calls[n].encl[Len(calls[n].encl)] = m })

IsStringID(c) == c.code \in StringIDTags /\ HasOperand(c)

IsRef(c) == c.fn = "decodeValue" /\ c.code \in RefTags /\ HasOperand(c)

Done == pc = "done"

Succeeded == Done /\ ret.err = NoErr

C2_RegisteredBeforeEntries ==
  /\ \A j \in 1..Len(stack) : \E i \in 1..Len(r.values) : r.values[i] = MapRef(stack[j].m)
  /\ \A n \in 1..Len(calls) : \A j \in 1..Len(calls[n].encl) :
       LET c == calls[n]
           own == Opened(n - 1)
       IN  (IsRef(c) /\ Operand(c) < Len(own) /\ own[Operand(c) + 1] = MapRef(c.encl[j])) =>
             /\ c.err = NoErr
             /\ c.val = MapRef(c.encl[j])
             /\ Succeeded => KeysOf(c.encl[j]) \subseteq DOMAIN r.heap[c.encl[j]]

\* a decode that returned a map whose inner map holds a reference back to
\* it: following the entries leads from the map to itself
C2_Witness ==
  /\ Succeeded
  /\ ret.val.t = "map"
  /\ \E n \in 1..Len(calls) :
       /\ IsRef(calls[n]) /\ Len(calls[n].encl) = 2
       /\ ret.val = MapRef(calls[n].encl[1])
       /\ calls[n].val = ret.val
       /\ \E k \in DOMAIN r.heap[calls[n].encl[2]] :
            r.heap[calls[n].encl[2]][k] = ret.val
       /\ \E k \in DOMAIN r.heap[calls[n].encl[1]] :
            r.heap[calls[n].encl[1]][k] = MapRef(calls[n].encl[2])

\* C3: a compound back-reference with index i yields the container of the
\* i-th container tag of the payload (maps, objects and serialized objects
\* one slot each), whichever reference tag and width carries the index.
C3_RefResolvesByOpeningOrder ==
  /\ r.values = Opened(Len(calls))
  /\ \A n \in 1..Len(calls) :
       (IsRef(calls[n]) /\ calls[n].err = NoErr) =>
          /\ Operand(calls[n]) < Len(Opened(n - 1))
          /\ calls[n].val = Opened(n - 1)[Operand(calls[n]) + 1]

\* a wide object reference that resolved to a serialized object which is
\* the second container of the payload
C3_Witness ==
  \E n, k \in 1..Len(calls) :
    /\ k < n
    /\ IsRef(calls[n]) /\ calls[n].code = TypeObjectRef16 /\ calls[n].err = NoErr
    /\ Operand(calls[n]) = 1
    /\ calls[k].code \in {TypeObjectSer8, TypeObjectSer16, TypeObjectSer32}
    /\ calls[n].val = calls[k].val

\* C4: a compound back-reference whose index is at least the size of the
\* value table fails with ErrValueRefOutOfRange, strict or not; Decode
\* returns that error and no value.
C4_RefOutOfRange ==
  (IsRef(out) /\ Operand(out) >= Len(r.values)) =>
     /\ out.err.kind = "ErrValueRefOutOfRange"
     /\ out.val = Nil
     /\ Done
     /\ ret.err.kind = "ErrValueRefOutOfRange"
     /\ ret.val = Nil

\* a permissive decoder met, inside a map, a reference past the table
C4_Witness ==
  /\ ~dec.strict
  /\ IsRef(out) /\ Operand(out) >= Len(r.values)
  /\ Len(out.encl) > 0
  /\ Len(r.values) > 0

\* C5: the simple-reference tag in value position yields nil and no error
\* when permissive, and when strict an error whose kind is not the
\* unknown-tag kind.
C5_SimpleRefKind ==
  (out.fn = "decodeValue" /\ out.code = TypeSimpleRef) =>
     IF dec.strict
     THEN out.err.kind \notin {"nil", "ErrUnknownType"}
     ELSE out.err = NoErr /\ out.val = Nil

SawSimpleRef ==
  \E n \in 1..Len(calls) : calls[n].fn = "decodeValue" /\ calls[n].code = TypeSimpleRef

\* C6: when no simple-reference tag was read in value position, the decoder
\* of the other mode returns the same value, or the same error at the same
\* position, and builds the same maps.
C6_StrictOnlySimpleRef ==
  (Done /\ ~SawSimpleRef) =>
     LET other == DecodeAll([strict |-> ~dec.strict], input)
     IN  /\ other.ret = ret
         /\ other.r.heap = r.heap

\* a strict decoder failed on a reference past the table inside a map
C6_Witness ==
  /\ Done /\ ~SawSimpleRef
  /\ dec.strict
  /\ IsRef(out) /\ Len(out.encl) > 0
  /\ ret.err.kind = "ErrValueRefOutOfRange"

\* the magnitude bytes of the integer tag of call c
HasMagnitude(c) == c.code \in IntTags /\ c.at + 1 + IntWidth(c.code) <= Len(input)

Magnitude(c) == Pad8(SubSeq(input, c.at + 2, c.at + 1 + IntWidth(c.code)))

\* the integers m and -m
Plus(m) == Int64(FALSE, m)

Minus(m) == Int64(~IsZero(m), m)

\* C7 as stated: for every width and magnitude m the positive-integer tag
\* decodes to m and the negative-integer tag to -m.
C7_EveryMagnitude ==
  (out.fn = "decodeValue" /\ HasMagnitude(out)) =>
     /\ out.err = NoErr
     /\ out.val = IF IsNegInt(out.code) THEN Minus(Magnitude(out)) ELSE Plus(Magnitude(out))

\* C7 amended: for every width and every magnitude m below 2^63 the
\* positive-integer tag decodes to m and the negative-integer tag to -m, and
\* the negative tag decodes 2^63 to -2^63; a larger 64-bit magnitude wraps
\* modulo 2^64, the positive tag to m - 2^64 and the negative tag to 2^64 - m.
C7_MagnitudeBelowWrap ==
  (out.fn = "decodeValue" /\ HasMagnitude(out)) =>
     LET m == Magnitude(out)
     IN  /\ out.err = NoErr
         /\ out.val = IF IsNegInt(out.code)
                      THEN IF m[1] < 128 \/ m = MinInt64Mag THEN Minus(m)
                           ELSE Plus(TwosComplement(m))
                      ELSE IF m[1] < 128 THEN Plus(m)
                           ELSE Minus(TwosComplement(m))

\* a negative 64-bit tag with a magnitude that fills all eight bytes
C7_Witness ==
  /\ out.fn = "decodeValue" /\ out.code = TypeNegInt64 /\ HasMagnitude(out)
  /\ Magnitude(out)[1] = 127 /\ Magnitude(out)[2] = 255 /\ Magnitude(out)[8] = 1
  /\ out.val = Minus(Magnitude(out))

\* the base-10 text of an int64
Base10(x) == (IF x.v[1] = 1 THEN <<45>> ELSE <<>>) \o SprintfD(Tail(x.v))

\* what the tag and bytes of call c decode to in value position
InValuePosition(c) == leafValue([r EXCEPT !.pos = c.at + 1], c.code).v

\* C8: an integer tag in key position gives the base-10 text of the integer
\* that the same tag and bytes decode to in value position.
C8_KeyIsTextOfValue ==
  (out.fn = "decodeArrayKey" /\ HasMagnitude(out)) =>
     /\ out.err = NoErr
     /\ out.val = Str(Base10(InValuePosition(out)))

ObjectTags == TypeObject8..TypeObjectID32

SerializedTags == {TypeObjectSer8, TypeObjectSer16, TypeObjectSer32}

IsObject(c) == c.fn = "decodeValue" /\ c.code \in ObjectTags /\ c.val.t = "map"

\* the count that the property block of object call c declares
DeclaredCount(c) ==
  LET nameLen == IF c.code \in InlineNameTags THEN Operand(c) ELSE 0
      tagAt == c.at + 1 + OperandBytes(c) + nameLen + 1
      width == IF input[tagAt] = TypeArray8 THEN 1
               ELSE IF input[tagAt] = TypeArray16 THEN 2 ELSE 4
  IN  ToInt(SubSeq(input, tagAt + 1, tagAt + width))

\* C9 as stated: a decoded inline-name or class-by-id object has exactly
\* property_count + 1 entries.
C9_CountPlusOne ==
  Succeeded =>
    \A n \in 1..Len(calls) :
      IsObject(calls[n]) =>
        Cardinality(DOMAIN r.heap[calls[n].val.v[1]]) = DeclaredCount(calls[n]) + 1

\* C9 amended: a decoded inline-name or class-by-id object has exactly one
\* entry for each distinct key text among "__class" and its property_count
\* property keys: property_count + 1 entries when the property keys differ
\* from each other and from "__class", fewer otherwise.
C9_OneEntryPerKeyText ==
  Succeeded =>
    \A n \in 1..Len(calls) :
      IsObject(calls[n]) =>
        LET m == calls[n].val.v[1]
        IN  /\ KeyCount(m) = DeclaredCount(calls[n])
            /\ DOMAIN r.heap[m] = KeysOf(m) \cup {ClassKey}
            /\ Cardinality(DOMAIN r.heap[m]) <= DeclaredCount(calls[n]) + 1
            /\ (Cardinality(KeysOf(m) \cup {ClassKey}) = KeyCount(m) + 1) =>
                 Cardinality(DOMAIN r.heap[m]) = DeclaredCount(calls[n]) + 1

\* an object of two properties whose keys, an integer and a string, have the
\* same text, and an object whose two keys differ
C9_Witness ==
  /\ Succeeded
  /\ \E n \in 1..Len(calls) :
       /\ IsObject(calls[n]) /\ DeclaredCount(calls[n]) = 2
       /\ Cardinality(DOMAIN r.heap[calls[n].val.v[1]]) = 2
       /\ \E i, j \in 1..Len(calls) :
            /\ calls[i].fn = "decodeArrayKey" /\ calls[i].code = TypePosInt8
            /\ calls[j].fn = "decodeArrayKey" /\ calls[j].code = TypeString8
            /\ calls[i].encl = calls[j].encl
            /\ calls[i].encl[Len(calls[i].encl)] = calls[n].val.v[1]

\* the class name of object call number n: its inline name, or the string
\* its class index names
ClassName(n) ==
  IF calls[n].code \in InlineNameTags THEN Body(calls[n])
  ELSE Registered(n - 1)[Operand(calls[n]) + 1]

\* C10: the "__class" entry of every decoded object is its class name,
\* whatever its property keys are.
C10_ClassKeyHoldsName ==
  Succeeded =>
    \A n \in 1..Len(calls) :
      (calls[n].fn = "decodeValue" /\ calls[n].code \in ObjectTags \cup SerializedTags) =>
         LET cell == r.heap[calls[n].val.v[1]]
         IN  ClassKey \in DOMAIN cell /\ cell[ClassKey] = Str(ClassName(n))

IsClassID(c) == c.fn = "decodeValue" /\ c.code \in ClassIDTags /\ HasOperand(c)

\* C11: a string back-reference, in value position, in key position or as
\* the class index of a class-by-id object, whose index is at least the
\* number of strings registered before it fails with ErrStringIDOutOfRange;
\* it is the last call of the decode, which returns that error, whatever
\* strings follow it in the payload.
C11_StringIDOutOfRange ==
  \A n \in 1..Len(calls) :
    LET c == calls[n]
    IN  ((IsStringID(c) \/ IsClassID(c)) /\ Operand(c) >= Len(Registered(n - 1))) =>
          /\ c.err.kind = "ErrStringIDOutOfRange"
          /\ c.err.args = <<Operand(c), Len(Registered(n - 1))>>
          /\ n = Len(calls)
          /\ Done
          /\ ret.err.kind = "ErrStringIDOutOfRange"
          /\ ret.err.pos = c.at + 1 + OperandBytes(c)

\* a class index in a wide tag that names the slot of a string which the
\* payload registers only later, after one string was registered
C11_Witness ==
  /\ Done
  /\ IsClassID(out) /\ out.code = TypeObjectID16
  /\ Operand(out) = 1 /\ Len(r.strings) = 1
  /\ Len(out.encl) = 1
  /\ Len(input) > out.at + 1 + OperandBytes(out) + 4
  /\ ret.err.kind = "ErrStringIDOutOfRange"

AcceptedKeyTags ==
  {TypeStringEmpty, TypeString8, TypeString16, TypeString32,
   TypeStringID8, TypeStringID16, TypeStringID32,
   TypePosInt8, TypeNegInt8, TypePosInt16, TypeNegInt16,
   TypePosInt32, TypeNegInt32, TypePosInt64, TypeNegInt64}

\* C13: in key position the empty-string tag, the fresh-string tags, the
\* string-id tags and the integer tags are accepted (they fail only when
\* their operand is cut short or their index is past the string table);
\* every other byte fails with ErrUnsupportedArrayKey at the offset of that
\* byte, with the byte as detail, and Decode returns that error.
C13_KeyTags ==
  (out.fn = "decodeArrayKey" /\ out.code \in AnyByte) =>
     IF out.code \in AcceptedKeyTags
     THEN out.err.kind \in {"nil", "ErrUnexpectedEnd", "ErrStringIDOutOfRange"}
     ELSE /\ out.err = newError("ErrUnsupportedArrayKey", out.at, "0x%02x", <<out.code>>)
          /\ Done
          /\ ret.err.kind = "ErrUnsupportedArrayKey"
          /\ ret.err.pos = out.at
          /\ ret.val = Nil

\* a boolean in key position, after an entry whose key was accepted
C13_Witness ==
  /\ out.fn = "decodeArrayKey" /\ out.code = TypeBoolTrue
  /\ out.err.kind = "ErrUnsupportedArrayKey"
  /\ Len(calls) = 4 /\ calls[2].fn = "decodeArrayKey" /\ calls[2].err = NoErr
  /\ Done

\* C14: in value position no byte from 0x00 to 0x25 is reported as an
\* unknown byte, and a permissive decoder never answers one with
\* ErrUnknownType; every byte from 0x26 to 0xFF fails with ErrUnknownType at
\* the offset of that byte, with the byte as detail, and Decode returns that
\* error.
C14_DefinedTags ==
  (out.fn = "decodeValue" /\ out.code \in AnyByte) =>
     IF out.code <= TypeSimpleRef
     THEN /\ out.err # newError("ErrUnknownType", out.at, "0x%02x", <<out.code>>)
          /\ ~dec.strict => out.err.kind # "ErrUnknownType"
     ELSE /\ out.err = newError("ErrUnknownType", out.at, "0x%02x", <<out.code>>)
          /\ out.val = Nil
          /\ Done
          /\ ret.err.kind = "ErrUnknownType"
          /\ ret.err.pos = out.at
          /\ ret.val = Nil

\* the first undefined byte, as the value of a map entry
C14_Witness ==
  /\ out.fn = "decodeValue" /\ out.code = TypeSimpleRef + 1
  /\ Len(out.encl) = 1
  /\ Done /\ ret.err.kind = "ErrUnknownType" /\ ret.err.wrap = 1

\* the class identity of object call number n was read
ClassRead(n) ==
  IF calls[n].code \in InlineNameTags THEN HasBody(calls[n])
  ELSE HasOperand(calls[n]) /\ Operand(calls[n]) < Len(Registered(n - 1))

\* the place in the input (counted from 1) of the byte after the class
\* identity of object call c
PropertyTagAt(c) ==
  c.at + 1 + OperandBytes(c) + (IF c.code \in InlineNameTags THEN Operand(c) ELSE 0) + 1

\* C15: after the class identity of an inline-name or class-by-id object the
\* bytes 0x14, 0x15 and 0x16 open the property block (the object then fails
\* only when its count is cut short); any other byte fails with
\* ErrInvalidObjectProperties at the offset of that byte, and Decode returns
\* that error.
C15_PropertyBlockTag ==
  \A n \in 1..Len(calls) :
    LET c == calls[n]
        at == PropertyTagAt(c)
    IN  (c.fn = "decodeValue" /\ c.code \in ObjectTags /\ ClassRead(n) /\ at <= Len(input)) =>
          IF input[at] \in {TypeArray8, TypeArray16, TypeArray32}
          THEN c.err.kind \in {"nil", "ErrUnexpectedEnd"}
          ELSE /\ c.err = newError("ErrInvalidObjectProperties", at - 1,
                                   "expected array type code, got 0x%02x", <<input[at]>>)
               /\ n = Len(calls)
               /\ Done
               /\ ret.err.kind = "ErrInvalidObjectProperties"
               /\ ret.err.pos = at - 1
               /\ ret.val = Nil

\* a class-by-id object, nested in a map, whose class index resolved and
\* whose next byte is a fresh-string tag
C15_Witness ==
  /\ Done
  /\ IsClassID(out) /\ Len(out.encl) = 1 /\ ClassRead(Len(calls))
  /\ PropertyTagAt(out) <= Len(input) /\ input[PropertyTagAt(out)] = TypeString8
  /\ ret.err.kind = "ErrInvalidObjectProperties"

\* the width in bytes of the length that fresh-string tag t carries
LengthBytes(t) == IF t = TypeString8 THEN 1 ELSE IF t = TypeString16 THEN 2 ELSE 4

\* C16: a serialized-blob object whose class name is followed by a
\* fresh-string tag with length N and N bytes decodes to a map of exactly two
\* entries, "__class" with the class name and "__serialized_raw" with those
\* N bytes; if the byte after the class name is not a fresh-string tag the
\* decode fails with ErrInvalidSerializedData at the offset of that byte.
C16_SerializedBlob ==
  \A n \in 1..Len(calls) :
    LET c == calls[n]
        at == PropertyTagAt(c)
    IN  (c.fn = "decodeValue" /\ c.code \in SerializedTags /\ HasBody(c) /\ at <= Len(input)) =>
          IF input[at] \notin {TypeString8, TypeString16, TypeString32}
          THEN /\ c.err = newError("ErrInvalidSerializedData", at - 1,
                                   "expected string type code, got 0x%02x", <<input[at]>>)
               /\ n = Len(calls)
               /\ Done
               /\ ret.err.kind = "ErrInvalidSerializedData"
               /\ ret.val = Nil
          ELSE LET w == LengthBytes(input[at])
                   N == ToInt(SubSeq(input, at + 1, at + w))
               IN  IF at + w <= Len(input) /\ at + w + N <= Len(input)
                   THEN /\ c.err = NoErr
                        /\ c.val.t = "map"
                        /\ DOMAIN r.heap[c.val.v[1]] = {ClassKey, SerializedDataKey}
                        /\ Cardinality(DOMAIN r.heap[c.val.v[1]]) = 2
                        /\ r.heap[c.val.v[1]][ClassKey] = Str(Body(c))
                        /\ r.heap[c.val.v[1]][SerializedDataKey] =
                             Str(SubSeq(input, at + w + 1, at + w + N))
                   ELSE c.err.kind = "ErrUnexpectedEnd"

\* a serialized object with a two-byte blob under a 16-bit length
C16_Witness ==
  /\ Succeeded
  /\ out.fn = "decodeValue" /\ out.code \in SerializedTags
  /\ input[PropertyTagAt(out)] = TypeString16
  /\ ret.val.t = "map"
  /\ r.heap[ret.val.v[1]][SerializedDataKey] = Str(<<120, 121>>)
  /\ r.heap[ret.val.v[1]][ClassKey] = Str(<<83>>)

\* C12: Decode of an input of fewer than 5 bytes returns ErrDataTooShort, and
\* of an input of 5 bytes or more whose first four bytes are not 00 00 00 02
\* ErrInvalidHeader, whatever the bytes are; both carry position 0 and a
\* detail and no value, and no tag is read before they are returned.  An
\* input of 5 bytes or more under the header returns neither.
C12_LengthThenHeader ==
  (pc # "Decode") =>
     IF Len(input) < 5
     THEN /\ Done /\ calls = <<>> /\ r = NoReader
          /\ ret.err.kind = "ErrDataTooShort"
          /\ ret.err.pos = 0 /\ ret.err.fmt # "" /\ ret.err.args = <<Len(input)>>
          /\ ret.val = Nil
     ELSE IF SubSeq(input, 1, 4) # <<0, 0, 0, 2>>
     THEN /\ Done /\ calls = <<>> /\ r = NoReader
          /\ ret.err.kind = "ErrInvalidHeader"
          /\ ret.err.pos = 0 /\ ret.err.fmt # ""
          /\ SubSeq(ret.err.args, 1, 4) = SubSeq(input, 1, 4)
          /\ ret.val = Nil
     ELSE /\ ret.err.kind \notin {"ErrDataTooShort", "ErrInvalidHeader"}
          /\ Done => Len(calls) > 0

\* the header alone, without a tag, is too short
C12_Witness ==
  /\ Done
  /\ input = <<0, 0, 0, 2>>
  /\ ret.err.kind = "ErrDataTooShort"

\* bytes that may follow a payload
Surplus == { <<TypeNil>>, <<255>>, <<TypeArray8, 1>>, <<TypeSimpleRef, TypeArrayRef8, 0>> }

\* C17: when Decode of a payload succeeds, Decode of that payload followed
\* by surplus bytes succeeds with the same value (the same maps with the
\* same entries) and stops at the same offset, strict or not.
C17_SurplusIgnored ==
  Succeeded =>
    \A extra \in Surplus :
      LET longer == DecodeAll(dec, input \o extra)
      IN  /\ longer.ret = ret
          /\ longer.r.heap = r.heap
          /\ longer.r.pos = r.pos

\* a strict decoder returned a map holding a nested map and left bytes of
\* the input unread
C17_Witness ==
  /\ Succeeded /\ dec.strict
  /\ ret.val.t = "map" /\ Len(r.heap) > 1
  /\ r.pos < Len(input)

\* C20: a call of decodeArrayKey or decodeValue that fails, at any depth, is
\* the last call of the decode: Decode returns no map, and an error of the
\* same kind that carries the failing call's DecodeError (position and
\* detail) under one wrapping per enclosing entry loop; a decode that
\* succeeds had no failing call.
C20_ErrorsPropagate ==
  \A n \in 1..Len(calls) :
    LET c == calls[n]
    IN  c.err # NoErr =>
          /\ n = Len(calls)
          /\ Done
          /\ ret.err.kind = c.err.kind
          /\ ret.err.pos = c.err.pos
          /\ ret.err.fmt = c.err.fmt /\ ret.err.args = c.err.args
          /\ ret.err.wrap = c.err.wrap + Len(c.encl)
          /\ ret.val.t # "map"
          /\ Len(c.encl) > 0 => ret.val = Nil

\* a key that failed two entry loops deep
C20_Witness ==
  /\ Done
  /\ out.fn = "decodeArrayKey" /\ Len(out.encl) = 2
  /\ out.err.kind = "ErrUnsupportedArrayKey"
  /\ ret.err.kind = "ErrUnsupportedArrayKey" /\ ret.err.wrap = 2
  /\ DOMAIN r.heap[out.encl[1]] = {}

\* the numbers of the calls that decoded key text k for an entry of map m
KeyCalls(m, k) ==
  { n \in 1..Len(calls) :
      /\ calls[n].fn = "decodeArrayKey"
      /\ calls[n].err = NoErr
      /\ calls[n].encl[Len(calls[n].encl)] = m
      /\ calls[n].val.v = k }

\* the last of them
LastKeyCall(m, k) == CHOOSE n \in KeyCalls(m, k) : \A o \in KeyCalls(m, k) : o <= n

\* C19: after a successful decode every map and object holds, for each key
\* text decoded for it (the empty string included), one entry, whose value
\* is the value decoded after the last occurrence of that key text, and it
\* holds no entry besides these and the class name.
C19_LastOccurrenceWins ==
  Succeeded =>
    \A m \in 1..Len(r.heap) :
      /\ KeysOf(m) \subseteq DOMAIN r.heap[m]
      /\ DOMAIN r.heap[m] \subseteq KeysOf(m) \cup {ClassKey, SerializedDataKey}
      /\ \A k \in KeysOf(m) : r.heap[m][k] = calls[LastKeyCall(m, k) + 1].val

\* a map whose three keys, an integer, a fresh string and a back-reference,
\* all have the text "1", with three different values
C19_Witness ==
  /\ Succeeded
  /\ \E m \in 1..Len(r.heap) :
       /\ KeyCount(m) = 3
       /\ KeysOf(m) = {<<49>>}
       /\ {calls[n].code : n \in KeyCalls(m, <<49>>)} =
            {TypePosInt8, TypeString8, TypeStringID8}
       /\ Cardinality({calls[n + 1].val : n \in KeyCalls(m, <<49>>)}) = 3
       /\ DOMAIN r.heap[m] = {<<49>>}

\* a decoded map with an entry under the empty string
C19_WitnessEmptyKey ==
  /\ Succeeded
  /\ \E m \in 1..Len(r.heap) : <<>> \in DOMAIN r.heap[m] /\ <<49>> \in DOMAIN r.heap[m]

\* C18: a Decoder holds the strict flag only, and a call of Decode starts at
\* offset 4 with empty tables: whatever calls were made on the Decoder
\* before, and whatever another goroutine's call on it has done so far, a
\* call returns what a lone first call on a Decoder of that mode returns for
\* the same data; this holds for the calls of both goroutines.
C18_CallsIndependent ==
  /\ DOMAIN dec = {"strict"}
  /\ (pc \notin {"Decode", "done"} /\ calls = <<>>) =>
        r.pos = 4 /\ r.strings = <<>> /\ r.values = <<>> /\ r.heap = <<>>
  /\ Done =>
        LET alone == DecodeAll(dec, input)
        IN  ret = alone.ret /\ r.heap = alone.r.heap /\ r.strings = alone.r.strings
  /\ peer.pc = "done" =>
        LET alone == DecodeAll(dec, peer.input)
        IN  peer.ret = alone.ret /\ peer.r.heap = alone.r.heap

\* the third call of goroutine 1 on a Decoder, after a call that succeeded
\* with strings and maps in its tables and a call that failed, and while the
\* call of goroutine 2 is under way with a string in its table: a
\* back-reference to string 0 fails
C18_Witness ==
  /\ turn = 1 /\ Done
  /\ Len(earlier) = 2 /\ earlier[1] = "nil" /\ earlier[2] # "nil"
  /\ peer.pc \notin {"none", "Decode", "done"} /\ Len(peer.r.strings) = 1
  /\ input = Header \o <<TypeStringID8, 0>>
  /\ ret.err.kind = "ErrStringIDOutOfRange"

\* call c is one of the events that register a string: a fresh-string tag
\* in value or key position, or the class name of an inline-name object or
\* of a serialized object, read in full
Registers(c) ==
  /\ c.code \in FreshStringTags \/ (c.fn = "decodeValue" /\ c.code \in InlineNameTags)
  /\ HasBody(c)

ReadsRight(rd, n) ==
  LET res == readBytes(rd, n)
  IN  IF n > Len(rd.data) - rd.pos
      THEN /\ res.err.kind = "ErrUnexpectedEnd" /\ res.err.pos = rd.pos
           /\ res.r.pos = rd.pos
      ELSE /\ res.err = NoErr
           /\ res.r.pos = rd.pos + n
           /\ res.v = SubSeq(rd.data, rd.pos + 1, rd.pos + n)

\* C25: in a decode session 4 <= pos <= len(input) and no call makes pos
\* smaller; a read of n bytes when fewer remain fails with ErrUnexpectedEnd
\* at the current pos and leaves pos where it is, so a call that fails
\* with ErrUnexpectedEnd reports the pos the session stopped at.
C25_PosInRange ==
  /\ [](r # NoReader =>
          /\ 4 <= r.pos /\ r.pos <= Len(input)
          /\ \A n \in 0..9 : ReadsRight(r, n)
          /\ ReadsRight(r, 2147483647 - Len(input))
          /\ out.err.kind = "ErrUnexpectedEnd" =>
                /\ out.err.pos = r.pos
                /\ IF out.err.fmt = "" THEN r.pos = Len(input)
                   ELSE /\ out.err.args[1] > Len(input) - r.pos
                        /\ out.err.args[2] = Len(input) - r.pos)
  /\ [][pc # "Decode" => r'.pos >= r.pos]_vars

\* a 32-bit integer cut short after two of its four bytes, as a map value
C25_Witness ==
  /\ Done
  /\ out.fn = "decodeValue" /\ out.code \in {TypePosInt32, TypeNegInt32}
  /\ Len(out.encl) = 1
  /\ out.err.kind = "ErrUnexpectedEnd" /\ out.err.args = <<4, 2>>
  /\ r.pos = Len(input) - 2

\* C26: when Decoder.Decode returns an error, the value returned with it
\* is nil.
C26_NilWithError == (Done /\ ret.err # NoErr) => ret.val = Nil

\* the payload was decoded and its top-level value ends at its last byte
ConsumedExactly == Succeeded /\ r.pos = Len(input)

\* what Decode returns for the first k bytes of the payload
Prefix(k) == DecodeAll(dec, SubSeq(input, 1, k)).ret

\* C27: when a payload decodes and its value ends at the last byte, each
\* proper prefix of five bytes or more fails with ErrUnexpectedEnd.
C27_PrefixesFail ==
  ConsumedExactly =>
    \A k \in 5..(Len(input) - 1) : Prefix(k).err.kind = "ErrUnexpectedEnd"

\* a map in a map with string keys, decoded to its last byte: prefixes end
\* inside counts, keys, string bodies and values
C27_Witness ==
  /\ ConsumedExactly
  /\ Len(input) >= 12
  /\ \E n \in 1..Len(calls) :
       /\ calls[n].code \in FreshStringTags /\ calls[n].fn = "decodeArrayKey"
       /\ Len(calls[n].encl) = 2

\* the maps opened with a declared count that exceeds the whole input
Oversized(c) ==
  /\ c.fn = "decodeValue" /\ c.code \in {TypeArray8, TypeArray16, TypeArray32}
  /\ c.err = NoErr
  /\ Operand(c) > Len(input)

C28_StepsConsume ==
  [][pc # "Decode" => (r'.pos > r.pos \/ (out'.err # NoErr /\ pc' = "done"))]_vars

\* ---------------------------------------------------------------- codec claims
\* bit n of a flags word
Bit(word, n) == (word \div (2 ^ n)) % 2 = 1

\* the positions of the calls of op in what a Decode call did
Invoked(o, op) == {n \in 1..Len(o.trace) : o.trace[n].op = op}

\* no compressor of Codec c answers to these flags and c has no fallback
Unresolvable(c, word) ==
  /\ \A flag \in DOMAIN c.compressors : \A n \in 0..8 : ~(Bit(flag, n) /\ Bit(word, n))
  /\ c.fallbackCompressor = NoPlugin

\* C21: a Decode of non-empty data calls no compressor when bit 4 of flags
\* is clear; when it is set, the first thing it does is call a compressor
\* on the data, unless none can be resolved, and then it returns an error
\* having called nothing. The serializer is called last, after the
\* compressor, on the compressor's output when the bit is set and on the
\* data otherwise. When the compressor fails, Decode returns an error and
\* calls no serializer.
C21_DecompressThenDeserialize ==
  \A i \in 1..Len(decodes) :
    LET c == decodes[i].c
        o == decodes[i].o
    IN  input # <<>> =>
          /\ ~Bit(flags, 4) => Invoked(o, "Decompress") = {}
          /\ Bit(flags, 4) =>
               \/ /\ Invoked(o, "Decompress") = {1}
                  /\ o.trace[1].arg = input
                  /\ o.trace[1].who # NoPlugin
               \/ /\ Unresolvable(c, flags)
                  /\ o.trace = <<>>
                  /\ o.err # NoErr
          /\ \A n \in Invoked(o, "Deserialize") :
               /\ n = Len(o.trace)
               /\ n = IF Bit(flags, 4) THEN 2 ELSE 1
               /\ o.trace[n].arg = IF Bit(flags, 4) THEN Decompress(o.trace[1].who, input).v
                                   ELSE input
          /\ (Invoked(o, "Decompress") # {} /\ Decompress(o.trace[1].who, input).err # NoErr) =>
               /\ o.err # NoErr
               /\ Invoked(o, "Deserialize") = {}

\* a compressed value decoded: the compressor, then the serializer on what
\* the compressor returned
C21_Witness ==
  \E i \in 1..Len(decodes) :
    LET o == decodes[i].o
    IN  /\ Bit(flags, 4)
        /\ Len(o.trace) = 2
        /\ o.trace[1].op = "Decompress"
        /\ o.trace[2].op = "Deserialize"
        /\ o.trace[2].arg = <<49>>
        /\ o.trace[2].arg # input
        /\ o.err = NoErr


\* the serializer Codec c has for the low four bits of a flags word
Registered4(c, word) ==
  IF word % 16 \in DOMAIN c.serializers THEN c.serializers[word % 16]
  ELSE c.fallbackSerializer

C23_EmptyBoolIsFalse ==
  \A i \in 1..Len(decodes) :
    (built.by = "NewCodec" /\ input = <<>> /\ flags = FlagBool) =>
      /\ decodes[i].o.val = Bool(FALSE)
      /\ decodes[i].o.err = NoErr

\* the compressor a Decode call called, if any
Chosen(o) == IF Invoked(o, "Decompress") = {} THEN NoPlugin ELSE o.trace[1].who

\* C29: two Decode calls on the same Codec, with the same data and flags,
\* call the same compressor.
C29_SameCompressor ==
  \A i, j \in 1..Len(decodes) :
    decodes[i].c = decodes[j].c => Chosen(decodes[i].o) = Chosen(decodes[j].o)

\* C30: whatever is called on the builder after Build, every Decode of the
\* built Codec returns what the Codec as built returns for the data and flags.
C30_BuiltCodecUnaffected ==
  \A i \in 1..Len(decodes) :
    built.by = "Build" => decodes[i].o \in Outcomes(built.c, input, flags)

====
